---- MODULE Spec2Model ----
(***************************************************************************)
(* A model of the noteslab drawing engine and of its note editor host.     *)
(*                                                                         *)
(*  - the PanResponder canvas   src/components/InfiniteCanvas.tsx          *)
(*  - the note editor           src/app/note/[id].tsx (NoteScreen)         *)
(*  - the notes store           src/unnamed/part_000 (NotesProvider)       *)
(*  - the eraser of the hook    src/components/InfiniteCanvas/             *)
(*                              InfiniteCanvas.tsx (useCanvasGestures)     *)
(*                                                                         *)
(* JavaScript numbers are modelled as exact rationals extended with NaN    *)
(* and the two infinities; floating-point rounding is not modelled.        *)
(* Touch positions are drawn from sets whose pairwise distances are        *)
(* integers, so that Math.hypot is exact.                                  *)
(***************************************************************************)
EXTENDS Integers, Sequences, FiniteSets, TLC

(***************************************************************************)
(* Bounds of the model.                                                    *)
(***************************************************************************)
\* handler invocations in one behaviour
MaxEvents == 6
\* changes of scale (zoom buttons and pinch moves) in one behaviour
MaxZoomOps == 2
\* last reading of Date.now()
MaxClock == 0

(***************************************************************************)
(* JavaScript numbers: [k, n, d] with k = "fin" (the rational n/d, d > 0,  *)
(* in lowest terms), "inf" (n = 1 or -1) or "nan".                         *)
(***************************************************************************)
RECURSIVE GCD(_, _)
GCD(a, b) == IF b = 0 THEN a ELSE GCD(b, a % b)

Abs(i) == IF i < 0 THEN -i ELSE i

Sgn(i) == IF i > 0 THEN 1 ELSE IF i < 0 THEN -1 ELSE 0

R(n, d) ==
  LET s == IF d < 0 THEN -1 ELSE 1
      g == GCD(Abs(n), Abs(d))
  IN  [k |-> "fin", n |-> (s * n) \div g, d |-> (s * d) \div g]

I(i) == [k |-> "fin", n |-> i, d |-> 1]

NaN == [k |-> "nan", n |-> 0, d |-> 1]

Inf(s) == [k |-> "inf", n |-> s, d |-> 1]

IsFinite(a) == a.k = "fin"

Neg(a) == IF a.k = "nan" THEN NaN ELSE [a EXCEPT !.n = -a.n]

Add(a, b) ==
  IF a.k = "nan" \/ b.k = "nan" THEN NaN
  ELSE IF a.k = "inf" /\ b.k = "inf" THEN (IF a.n = b.n THEN a ELSE NaN)
  ELSE IF a.k = "inf" THEN a
  ELSE IF b.k = "inf" THEN b
  ELSE LET g == GCD(a.d, b.d)
       IN  R(a.n * (b.d \div g) + b.n * (a.d \div g), (a.d \div g) * b.d)

Sub(a, b) == Add(a, Neg(b))

Mul(a, b) ==
  IF a.k = "nan" \/ b.k = "nan" THEN NaN
  ELSE IF a.k = "inf" \/ b.k = "inf"
       THEN (IF a.n = 0 \/ b.n = 0 THEN NaN ELSE Inf(Sgn(a.n) * Sgn(b.n)))
  ELSE R(a.n * b.n, a.d * b.d)

\* a / b; a zero divisor is +0 (every divisor of the program is a distance
\* or a scale, never -0)
Div(a, b) ==
  IF a.k = "nan" \/ b.k = "nan" THEN NaN
  ELSE IF a.k = "inf"
       THEN (IF b.k = "inf" THEN NaN
             ELSE Inf(a.n * (IF b.n < 0 THEN -1 ELSE 1)))
  ELSE IF b.k = "inf" THEN I(0)
  ELSE IF b.n = 0 THEN (IF a.n = 0 THEN NaN ELSE Inf(Sgn(a.n)))
  ELSE R(a.n * b.d, a.d * b.n)

\* a < b; every comparison with NaN is false
Less(a, b) ==
  IF a.k = "nan" \/ b.k = "nan" THEN FALSE
  ELSE IF a.k = "inf" THEN a.n = -1 /\ ~(b.k = "inf" /\ b.n = -1)
  ELSE IF b.k = "inf" THEN b.n = 1
  ELSE LET g == GCD(a.d, b.d)
       IN  a.n * (b.d \div g) < b.n * (a.d \div g)

Leq(a, b) ==
  IF a.k = "nan" \/ b.k = "nan" THEN FALSE ELSE ~Less(b, a)

MathMin(a, b) ==
  IF a.k = "nan" \/ b.k = "nan" THEN NaN
  ELSE IF Less(b, a) THEN b ELSE a

MathMax(a, b) ==
  IF a.k = "nan" \/ b.k = "nan" THEN NaN
  ELSE IF Less(a, b) THEN b ELSE a

\* Math.hypot, for the legs the model draws (their hypotenuse is an integer)
MathHypot(dx, dy) ==
  LET q == dx * dx + dy * dy
  IN  I(CHOOSE r \in 0..(Abs(dx) + Abs(dy)) : r * r = q)

(***************************************************************************)
(* Number.prototype.toFixed(1): the text of a number with one decimal      *)
(* digit, half away from zero.  A text is [k, neg, mag]: k = "num" is the  *)
(* decimal mag/10 with a leading "-" when neg; the other texts are "NaN"   *)
(* and "Infinity".                                                         *)
(***************************************************************************)
toFixed1(a) ==
  IF a.k = "nan" THEN [k |-> "NaN", neg |-> FALSE, mag |-> 0]
  ELSE IF a.k = "inf" THEN [k |-> "Infinity", neg |-> a.n < 0, mag |-> 0]
  ELSE [k |-> "num", neg |-> a.n < 0,
        mag |-> (20 * Abs(a.n) + a.d) \div (2 * a.d)]

\* parseFloat of such a text
parseFloat(t) ==
  IF t.k = "NaN" THEN NaN
  ELSE IF t.k = "Infinity" THEN Inf(IF t.neg THEN -1 ELSE 1)
  ELSE R(IF t.neg THEN -t.mag ELSE t.mag, 10)

(***************************************************************************)
(* Inputs.                                                                 *)
(***************************************************************************)
\* positions (pageX, pageY) of the single touch of a grant and of a move
GrantTouches == {<<10, 10>>}

MoveTouches == {<<20, 10>>, <<20, 20>>}

\* positions of two simultaneous touches: two touches reported at the same
\* position, and two touches 50 apart
Touches2 ==
  {<<<<10, 10>>, <<10, 10>>>>, <<<<10, 10>>, <<40, 50>>>>}

\* COLORS and BRUSH_SIZES of the tool panel (the first two of each)
COLORS == {"#000000", "#FF0000"}

BRUSH_SIZES == {2, 4}

modes == <<"draw", "erase", "pan">>

Titles == {"A", "B"}

\* the id of the note that is open in the editor
NoteId == "n1"

(***************************************************************************)
(* State.                                                                  *)
(***************************************************************************)
VARIABLES
  \* InfiniteCanvas (PanResponder canvas): React state and refs
  currentPath, isDrawing, scale, translate, pathIdRef, lastTouch,
  isPanning, isZooming, lastScale, lastTranslate, initialDistance,
  zoomCenter,
  \* NoteScreen: React state, the save timer and the timers of the runtime
  note, title, paths, currentTool, saveTimeoutRef, timers, nextTimer,
  \* NotesProvider: React state, the storage and the writes in flight
  notes, currentNote, storage, writes,
  \* environment: number of touches on the canvas, last Date.now()
  nTouches, now,
  \* NoteScreen and InfiniteCanvas of the useCanvasGestures variant: the
  \* eraser size and the eraser preview (the other state of this variant
  \* has the names of the state above and is held in those variables), and
  \* the position of touches[0] in the last touch event it received
  eraserSize, eraserPreview, touch0,
  \* AdvancedDrawingCanvas: React state (its isDrawing, currentTool and
  \* strokeIdRef are held in isDrawing, currentTool and pathIdRef)
  currentStroke, currentPoints, strokes,
  \* NotesProvider: the folders state and the stored folders
  folders, folderStorage,
  \* AnalyticsService: the fields of the singleton (flushTimer is the state
  \* of the interval it names) and the batches given to sendToAnalytics
  events, metrics, errors, isEnabled, batchSize, flushTimer, sent,
  \* history: events of the current gesture, path list at its grant,
  \* calls of onPathsChange, calls of updateNote, mutations of the
  \* current burst, counters
  log, pre, emits, updateCalls, burst, nEvents, nZoom

\* null and undefined
Null == [k |-> "null"]

canvasVars ==
  <<currentPath, isDrawing, scale, translate, pathIdRef, lastTouch,
    isPanning, isZooming, lastScale, lastTranslate, initialDistance,
    zoomCenter>>

editorVars == <<note, title, paths, saveTimeoutRef, timers, nextTimer>>

storeVars == <<notes, currentNote, storage, writes>>

hookVars == <<eraserSize, eraserPreview, touch0>>

skiaVars == <<currentStroke, currentPoints, strokes>>

\* the state of the components that the canvas, the editor and the notes
\* of the store do not touch
folderVars == <<folders, folderStorage>>

analyticsVars ==
  <<events, metrics, errors, isEnabled, batchSize, flushTimer, sent>>

sideVars == <<skiaVars, folderVars, analyticsVars>>

histVars == <<log, pre, emits, updateCalls, burst>>

vars ==
  <<canvasVars, editorVars, currentTool, storeVars, nTouches, now, hookVars,
    sideVars, histVars, nEvents, nZoom>>

\* every handler invocation is counted, and so is every change of scale
Count == nEvents < MaxEvents /\ nEvents' = nEvents + 1 /\ UNCHANGED nZoom

\* a handler of the canvas, the editor or the notes of the store
Tick == Count /\ UNCHANGED sideVars

TickZoom ==
  /\ nEvents < MaxEvents /\ nEvents' = nEvents + 1
  /\ nZoom < MaxZoomOps /\ nZoom' = nZoom + 1
  /\ UNCHANGED sideVars

(***************************************************************************)
(* Path data: the string "M<x>,<y> L<x>,<y> ..." as the sequence of its    *)
(* space-separated segments [cmd, x, y]; x and y are toFixed(1) texts.     *)
(* The empty string is the empty sequence.                                 *)
(***************************************************************************)
Seg(cmd, c) == [cmd |-> cmd, x |-> toFixed1(c.x), y |-> toFixed1(c.y)]

\* screenToCanvas of InfiniteCanvas, under a given transform
screenToCanvasAt(screenX, screenY, s, t) ==
  [x |-> Div(Sub(screenX, t.x), s), y |-> Div(Sub(screenY, t.y), s)]

screenToCanvas(p) == screenToCanvasAt(I(p[1]), I(p[2]), scale, translate)

\* canvasToScreen of InfiniteCanvas
canvasToScreen(c) ==
  [x |-> Add(Mul(c.x, scale), translate.x),
   y |-> Add(Mul(c.y, scale), translate.y)]

(***************************************************************************)
(* NoteScreen: debouncedSave, handlePathsChange, handleTitleChange.        *)
(* A timer is [id, updates, closure]: closure holds the notes and the      *)
(* currentNote of the render whose updateNote the callback captured.       *)
(***************************************************************************)
\* debouncedSave without its clearTimeout: the earlier timer stays scheduled
debouncedSave_noClear(updates) ==
  /\ timers' = timers \cup {[id |-> nextTimer, updates |-> updates,
                              closure |-> [notes |-> notes,
                                           currentNote |-> currentNote]]}
  /\ saveTimeoutRef' = nextTimer
  /\ nextTimer' = nextTimer + 1
  /\ burst' = Append(burst, updates)

\* clearTimeout(saveTimeoutRef.current) followed by setTimeout(..., 1000)
debouncedSave(updates) ==
  /\ timers' = {t \in timers : t.id # saveTimeoutRef}
                 \cup {[id |-> nextTimer, updates |-> updates,
                        closure |-> [notes |-> notes,
                                     currentNote |-> currentNote]]}
  /\ saveTimeoutRef' = nextTimer
  /\ nextTimer' = nextTimer + 1
  /\ burst' = Append(burst, updates)

handlePathsChange(newPaths) ==
  /\ paths' = newPaths
  /\ debouncedSave([paths |-> newPaths])
  /\ emits' = emits + 1
  /\ UNCHANGED <<note, title>>

(***************************************************************************)
(* InfiniteCanvas: the handlers of the PanResponder.                       *)
(***************************************************************************)
Event(e, p) ==
  [e |-> e, mode |-> currentTool.mode, drawing |-> isDrawing, p |-> p,
   s |-> scale, t |-> translate]

Midpoint(a, b) == [x |-> R(a[1] + b[1], 2), y |-> R(a[2] + b[2], 2)]

\* onPanResponderGrant with one touch
Grant1(p) ==
  /\ Tick /\ nTouches = 0
  /\ lastTouch' = p
  /\ IF currentTool.mode = "draw"
     THEN /\ isDrawing' = TRUE
          /\ currentPath' = <<Seg("M", screenToCanvas(p))>>
          /\ UNCHANGED <<isPanning, lastTranslate>>
     ELSE IF currentTool.mode = "pan"
     THEN /\ isPanning' = TRUE
          /\ lastTranslate' = translate
          /\ UNCHANGED <<isDrawing, currentPath>>
     ELSE UNCHANGED <<isDrawing, currentPath, isPanning, lastTranslate>>
  /\ nTouches' = 1
  /\ log' = <<Event("grant1", p)>> /\ pre' = paths
  /\ UNCHANGED <<hookVars, scale, translate, pathIdRef, isZooming, lastScale,
                 initialDistance, zoomCenter, editorVars, currentTool,
                 storeVars, now, emits, updateCalls, burst>>

\* onPanResponderGrant with two touches
Grant2(a, b) ==
  /\ Tick /\ nTouches = 0
  /\ isZooming' = TRUE
  /\ initialDistance' = MathHypot(a[1] - b[1], a[2] - b[2])
  /\ lastScale' = scale
  /\ zoomCenter' = Midpoint(a, b)
  /\ lastTranslate' = translate
  /\ nTouches' = 2
  /\ log' = <<Event("grant2", <<a, b>>)>> /\ pre' = paths
  /\ UNCHANGED <<hookVars, currentPath, isDrawing, scale, translate, pathIdRef,
                 lastTouch, isPanning, editorVars, currentTool, storeVars,
                 now, emits, updateCalls, burst>>

\* a further touch lands, or one of two touches is lifted, during a gesture:
\* onPanResponderStart / onPanResponderEnd, for which the canvas has no
\* handler
TouchStart ==
  /\ Tick /\ nTouches = 1
  /\ nTouches' = 2
  /\ UNCHANGED <<hookVars, canvasVars, editorVars, currentTool, storeVars, now,
                 histVars>>

TouchEnd ==
  /\ Tick /\ nTouches = 2
  /\ nTouches' = 1
  /\ UNCHANGED <<hookVars, canvasVars, editorVars, currentTool, storeVars, now,
                 histVars>>

\* Move1, had it committed the stroke drawn so far on every move
Move1_commits(p) ==
  /\ Tick /\ nTouches = 1
  /\ IF isDrawing /\ currentTool.mode = "draw"
     THEN /\ currentPath' =
               IF currentPath # <<>>
               THEN Append(currentPath, Seg("L", screenToCanvas(p)))
               ELSE <<Seg("M", screenToCanvas(p))>>
          /\ handlePathsChange(
               Append(pre,
                 [id |-> <<pathIdRef, now>>, d |-> currentPath',
                  color |-> currentTool.color,
                  strokeWidth |-> currentTool.strokeWidth]))
          /\ UNCHANGED translate
     ELSE IF isPanning \/ currentTool.mode = "pan"
     THEN /\ translate' =
               [x |-> Add(lastTranslate.x, I(p[1] - lastTouch[1])),
                y |-> Add(lastTranslate.y, I(p[2] - lastTouch[2]))]
          /\ UNCHANGED <<currentPath, editorVars, emits, burst>>
     ELSE UNCHANGED <<currentPath, translate, editorVars, emits, burst>>
  /\ log' = Append(log, Event("move1", p))
  /\ UNCHANGED <<hookVars, isDrawing, scale, pathIdRef, lastTouch, isPanning,
                 isZooming, lastScale, lastTranslate, initialDistance,
                 zoomCenter, currentTool, storeVars, nTouches, now, pre,
                 updateCalls>>

\* a one-touch move whose pan adds the offset to the current translate
Move1_accumulates(p) ==
  /\ Tick /\ nTouches = 1
  /\ IF isDrawing /\ currentTool.mode = "draw"
     THEN /\ currentPath' =
               IF currentPath # <<>>
               THEN Append(currentPath, Seg("L", screenToCanvas(p)))
               ELSE <<Seg("M", screenToCanvas(p))>>
          /\ UNCHANGED translate
     ELSE IF isPanning \/ currentTool.mode = "pan"
     THEN /\ translate' =
               [x |-> Add(translate.x, I(p[1] - lastTouch[1])),
                y |-> Add(translate.y, I(p[2] - lastTouch[2]))]
          /\ UNCHANGED currentPath
     ELSE UNCHANGED <<currentPath, translate>>
  /\ log' = Append(log, Event("move1", p))
  /\ UNCHANGED <<hookVars, isDrawing, scale, pathIdRef, lastTouch, isPanning,
                 isZooming, lastScale, lastTranslate, initialDistance,
                 zoomCenter, editorVars, currentTool, storeVars, nTouches,
                 now, pre, emits, updateCalls, burst>>

\* onPanResponderMove with one touch
Move1(p) ==
  /\ Tick /\ nTouches = 1
  /\ IF isDrawing /\ currentTool.mode = "draw"
     THEN /\ currentPath' =
               IF currentPath # <<>>
               THEN Append(currentPath, Seg("L", screenToCanvas(p)))
               ELSE <<Seg("M", screenToCanvas(p))>>
          /\ UNCHANGED translate
     ELSE IF isPanning \/ currentTool.mode = "pan"
     THEN /\ translate' =
               [x |-> Add(lastTranslate.x, I(p[1] - lastTouch[1])),
                y |-> Add(lastTranslate.y, I(p[2] - lastTouch[2]))]
          /\ UNCHANGED currentPath
     ELSE UNCHANGED <<currentPath, translate>>
  /\ log' = Append(log, Event("move1", p))
  /\ UNCHANGED <<hookVars, isDrawing, scale, pathIdRef, lastTouch, isPanning,
                 isZooming, lastScale, lastTranslate, initialDistance,
                 zoomCenter, editorVars, currentTool, storeVars, nTouches,
                 now, pre, emits, updateCalls, burst>>

\* the scale of a pinch move, had it stopped at the clamp
pinchScale_undamped(newDistance) ==
  LET raw == Mul(lastScale, Div(newDistance, initialDistance))
  IN  MathMax(R(2, 10), MathMin(I(10), raw))

\* the scale of a pinch move: clamp, then move a fifth of the way
pinchScale(newDistance) ==
  LET raw == Mul(lastScale, Div(newDistance, initialDistance))
      clamped == MathMax(R(2, 10), MathMin(I(10), raw))
  IN  Add(lastScale, Mul(Sub(clamped, lastScale), R(2, 10)))

\* onPanResponderMove with two touches
Move2(a, b) ==
  /\ nTouches = 2
  /\ IF isZooming
     THEN LET newScale == pinchScale(MathHypot(a[1] - b[1], a[2] - b[2]))
              center == zoomCenter
              canvasCenter ==
                screenToCanvasAt(center.x, center.y, scale, translate)
          IN  /\ TickZoom
              /\ scale' = newScale
              /\ translate' =
                   [x |-> Sub(center.x, Mul(canvasCenter.x, newScale)),
                    y |-> Sub(center.y, Mul(canvasCenter.y, newScale))]
     ELSE Tick /\ UNCHANGED <<scale, translate>>
  /\ log' = Append(log, Event("move2", <<a, b>>))
  /\ UNCHANGED <<hookVars, currentPath, isDrawing, pathIdRef, lastTouch, isPanning,
                 isZooming, lastScale, lastTranslate, initialDistance,
                 zoomCenter, editorVars, currentTool, storeVars, nTouches,
                 now, pre, emits, updateCalls, burst>>

\* Release, had it painted the stroke with the default color of the renderer
Release_defaultColor ==
  /\ Tick /\ nTouches > 0
  /\ IF isDrawing /\ currentTool.mode = "draw" /\ currentPath # <<>>
     THEN /\ pathIdRef' = pathIdRef + 1
          /\ \E t \in now..MaxClock : now' = t
          /\ handlePathsChange(
               Append(paths,
                 [id |-> <<pathIdRef', now'>>, d |-> currentPath,
                  color |-> "#000000",
                  strokeWidth |-> currentTool.strokeWidth]))
     ELSE UNCHANGED <<pathIdRef, now, editorVars, emits, burst>>
  /\ isDrawing' = FALSE
  /\ currentPath' = <<>>
  /\ isPanning' = FALSE
  /\ isZooming' = FALSE
  /\ nTouches' = 0
  /\ log' = Append(log, Event("release", <<0, 0>>))
  /\ UNCHANGED <<hookVars, scale, translate, lastTouch, lastScale, lastTranslate,
                 initialDistance, zoomCenter, currentTool, storeVars, pre,
                 updateCalls>>

\* onPanResponderRelease: all touches are lifted
Release ==
  /\ Tick /\ nTouches > 0
  /\ IF isDrawing /\ currentTool.mode = "draw" /\ currentPath # <<>>
     THEN /\ pathIdRef' = pathIdRef + 1
          /\ \E t \in now..MaxClock : now' = t
          /\ handlePathsChange(
               Append(paths,
                 [id |-> <<pathIdRef', now'>>, d |-> currentPath,
                  color |-> currentTool.color,
                  strokeWidth |-> currentTool.strokeWidth]))
     ELSE UNCHANGED <<pathIdRef, now, editorVars, emits, burst>>
  /\ isDrawing' = FALSE
  /\ currentPath' = <<>>
  /\ isPanning' = FALSE
  /\ isZooming' = FALSE
  /\ nTouches' = 0
  /\ log' = Append(log, Event("release", <<0, 0>>))
  /\ UNCHANGED <<hookVars, scale, translate, lastTouch, lastScale, lastTranslate,
                 initialDistance, zoomCenter, currentTool, storeVars, pre,
                 updateCalls>>

\* Terminate, had it committed the stroke as a release does
Terminate_commits ==
  /\ Tick /\ nTouches > 0
  /\ IF isDrawing /\ currentTool.mode = "draw" /\ currentPath # <<>>
     THEN /\ pathIdRef' = pathIdRef + 1
          /\ \E t \in now..MaxClock : now' = t
          /\ handlePathsChange(
               Append(paths,
                 [id |-> <<pathIdRef', now'>>, d |-> currentPath,
                  color |-> currentTool.color,
                  strokeWidth |-> currentTool.strokeWidth]))
     ELSE UNCHANGED <<pathIdRef, now, editorVars, emits, burst>>
  /\ isDrawing' = FALSE
  /\ currentPath' = <<>>
  /\ isPanning' = FALSE
  /\ isZooming' = FALSE
  /\ nTouches' = 0
  /\ log' = Append(log, Event("terminate", <<0, 0>>))
  /\ UNCHANGED <<hookVars, scale, translate, lastTouch, lastScale, lastTranslate,
                 initialDistance, zoomCenter, currentTool, storeVars, pre,
                 updateCalls>>

\* a terminate that leaves the pinch flag as it is
Terminate_keepsZooming ==
  /\ Tick /\ nTouches > 0
  /\ isDrawing' = FALSE
  /\ currentPath' = <<>>
  /\ isPanning' = FALSE
  /\ nTouches' = 0
  /\ log' = Append(log, Event("terminate", <<0, 0>>))
  /\ UNCHANGED <<hookVars, scale, translate, pathIdRef, lastTouch, lastScale,
                 lastTranslate, initialDistance, zoomCenter, editorVars,
                 currentTool, storeVars, now, pre, emits, updateCalls, burst,
                 isZooming>>

\* onPanResponderTerminate: the platform takes the gesture away
Terminate ==
  /\ Tick /\ nTouches > 0
  /\ isDrawing' = FALSE
  /\ currentPath' = <<>>
  /\ isPanning' = FALSE
  /\ isZooming' = FALSE
  /\ nTouches' = 0
  /\ log' = Append(log, Event("terminate", <<0, 0>>))
  /\ UNCHANGED <<hookVars, scale, translate, pathIdRef, lastTouch, lastScale,
                 lastTranslate, initialDistance, zoomCenter, editorVars,
                 currentTool, storeVars, now, pre, emits, updateCalls, burst>>

(***************************************************************************)
(* InfiniteCanvas: the zoom control buttons (onTouchEnd of plain views,    *)
(* which are delivered during a gesture of the canvas too).                *)
(***************************************************************************)
\* history: the record of a finished gesture is dropped when the next thing
\* happens
Forget ==
  IF nTouches = 0 THEN log' = <<>> /\ pre' = <<>> ELSE UNCHANGED <<log, pre>>

ZoomInButton ==
  /\ TickZoom
  /\ scale' = MathMin(Mul(scale, R(12, 10)), I(10))
  /\ Forget
  /\ UNCHANGED <<hookVars, currentPath, isDrawing, translate, pathIdRef, lastTouch,
                 isPanning, isZooming, lastScale, lastTranslate,
                 initialDistance, zoomCenter, editorVars, currentTool,
                 storeVars, nTouches, now, emits, updateCalls, burst>>

ZoomOutButton ==
  /\ TickZoom
  /\ scale' = MathMax(Div(scale, R(12, 10)), R(1, 10))
  /\ Forget
  /\ UNCHANGED <<hookVars, currentPath, isDrawing, translate, pathIdRef, lastTouch,
                 isPanning, isZooming, lastScale, lastTranslate,
                 initialDistance, zoomCenter, editorVars, currentTool,
                 storeVars, nTouches, now, emits, updateCalls, burst>>

ResetViewButton ==
  /\ Tick
  /\ scale' = I(1)
  /\ translate' = [x |-> I(0), y |-> I(0)]
  /\ Forget
  /\ UNCHANGED <<hookVars, currentPath, isDrawing, pathIdRef, lastTouch, isPanning,
                 isZooming, lastScale, lastTranslate, initialDistance,
                 zoomCenter, editorVars, currentTool, storeVars, nTouches,
                 now, emits, updateCalls, burst>>

(***************************************************************************)
(* DrawingTools: the tool panel, whose onToolChange is setCurrentTool.     *)
(* Its buttons are touchables: a press makes the button the responder, so  *)
(* the canvas is not in a gesture when a press is handled (a gesture in    *)
(* progress is terminated first).                                          *)
(***************************************************************************)
IndexOf(seq, v) == CHOOSE i \in DOMAIN seq : seq[i] = v

\* a color selection that also repaints the committed strokes
handleColorSelect_repaints(color) ==
  /\ Tick /\ nTouches = 0
  /\ currentTool' = [currentTool EXCEPT !.color = color]
  /\ handlePathsChange([i \in DOMAIN paths |->
                          [paths[i] EXCEPT !.color = color]])
  /\ log' = <<>> /\ pre' = <<>>
  /\ UNCHANGED <<hookVars, canvasVars, storeVars, nTouches, now,
                 updateCalls>>

handleColorSelect(color) ==
  /\ Tick /\ nTouches = 0
  /\ currentTool' = [currentTool EXCEPT !.color = color]
  /\ log' = <<>> /\ pre' = <<>>
  /\ UNCHANGED <<hookVars, canvasVars, editorVars, storeVars, nTouches, now, emits,
                 updateCalls, burst>>

handleBrushSizeSelect(strokeWidth) ==
  /\ Tick /\ nTouches = 0
  /\ currentTool' = [currentTool EXCEPT !.strokeWidth = strokeWidth]
  /\ log' = <<>> /\ pre' = <<>>
  /\ UNCHANGED <<hookVars, canvasVars, editorVars, storeVars, nTouches, now, emits,
                 updateCalls, burst>>

handleModeToggle ==
  LET currentIndex == IndexOf(modes, currentTool.mode)
      nextIndex == (currentIndex % Len(modes)) + 1
  IN  /\ Tick /\ nTouches = 0
      /\ currentTool' = [currentTool EXCEPT !.mode = modes[nextIndex]]
      /\ log' = <<>> /\ pre' = <<>>
      /\ UNCHANGED <<hookVars, canvasVars, editorVars, storeVars, nTouches, now, emits,
                     updateCalls, burst>>

(***************************************************************************)
(* NoteScreen and NotesProvider: title edits, the save timer, updateNote   *)
(* and saveNotes.  The updatedAt stamp of a note is not modelled.          *)
(***************************************************************************)
\* { ...n, ...updates }
Merge(n, updates) ==
  [f \in DOMAIN n \cup DOMAIN updates |->
     IF f \in DOMAIN updates THEN updates[f] ELSE n[f]]

\* onChangeText of the title input
handleTitleChange(newTitle) ==
  /\ Tick /\ nTouches = 0
  /\ title' = newTitle
  /\ debouncedSave([title |-> newTitle])
  /\ Forget
  /\ UNCHANGED <<hookVars, canvasVars, note, paths, currentTool, storeVars, nTouches,
                 now, emits, updateCalls>>

\* the body of updateNote up to the await in saveNotes, run on the notes
\* that the calling closure holds
updateNote(closure, id, updates) ==
  LET updatedNotes ==
        [i \in DOMAIN closure.notes |->
           IF closure.notes[i].id = id
           THEN Merge(closure.notes[i], updates) ELSE closure.notes[i]]
  IN  writes' = Append(writes, [notes |-> updatedNotes, id |-> id,
                                updates |-> updates,
                                currentNote |-> closure.currentNote])

\* the save timer expires: the callback of debouncedSave
TimerFire ==
  \E t \in timers :
    /\ Tick
    /\ timers' = timers \ {t}
    /\ updateNote(t.closure, note.id, t.updates)
    /\ updateCalls' =
         Append(updateCalls, [id |-> note.id, updates |-> t.updates,
                              burst |-> burst])
    /\ burst' = <<>>
    /\ UNCHANGED <<hookVars, canvasVars, note, title, paths, saveTimeoutRef,
                   nextTimer, currentTool, notes, currentNote, storage,
                   nTouches, now, log, pre, emits>>

\* AsyncStorage.setItem of the oldest write resolves: the rest of saveNotes
\* and of updateNote
SaveNotesDone ==
  /\ Tick /\ writes # <<>>
  /\ LET w == Head(writes)
     IN  /\ storage' = w.notes
         /\ notes' = w.notes
         /\ currentNote' =
              IF w.currentNote # Null /\ w.currentNote.id = w.id
              THEN Merge(w.currentNote, w.updates) ELSE currentNote
  /\ writes' = Tail(writes)
  /\ UNCHANGED <<hookVars, canvasVars, editorVars, currentTool, nTouches, now,
                 histVars>>

(***************************************************************************)
(* The state after the editor has mounted on the stored note.              *)
(***************************************************************************)
Zero2 == [x |-> I(0), y |-> I(0)]

InitCanvas ==
  /\ currentPath = <<>> /\ isDrawing = FALSE
  /\ scale = I(1) /\ translate = Zero2
  /\ pathIdRef = 0 /\ lastTouch = <<0, 0>>
  /\ isPanning = FALSE /\ isZooming = FALSE
  /\ lastScale = I(1) /\ lastTranslate = Zero2
  /\ initialDistance = I(0) /\ zoomCenter = Zero2

\* a stroke stored by an earlier session (its id carries an earlier time)
StoredPath ==
  [id |-> <<1, -1>>,
   d |-> <<[cmd |-> "M", x |-> toFixed1(I(5)), y |-> toFixed1(I(5))],
           [cmd |-> "L", x |-> toFixed1(I(10)), y |-> toFixed1(I(10))]>>,
   color |-> "#FF0000", strokeWidth |-> 4]

InitEditor ==
  /\ notes \in {<<[id |-> NoteId, title |-> "A", paths |-> ps]>> :
                  ps \in {<<>>, <<StoredPath>>}}
  /\ storage = notes /\ writes = <<>>
  /\ note = notes[1] /\ currentNote = note
  /\ title = note.title /\ paths = note.paths
  /\ currentTool = [color |-> "#000000", strokeWidth |-> 2, mode |-> "draw"]
  /\ saveTimeoutRef = 0 /\ timers = {} /\ nextTimer = 1

InitHistory ==
  /\ nTouches = 0 /\ now = 0
  /\ log = <<>> /\ pre = <<>> /\ emits = 0 /\ updateCalls = <<>>
  /\ burst = <<>> /\ nEvents = 0 /\ nZoom = 0

InitHook == eraserSize = 30 /\ eraserPreview = Null /\ touch0 = <<0, 0>>

InitSkia == currentStroke = Null /\ currentPoints = <<>> /\ strokes = <<>>

Folder(id) == [id |-> id, name |-> id]

InitFolders ==
  /\ folders = <<Folder("f1"), Folder("f2")>>
  /\ folderStorage = folders

InitAnalytics ==
  /\ events = <<>> /\ metrics = <<>> /\ errors = <<>>
  /\ isEnabled = TRUE
  /\ batchSize = 50
  /\ flushTimer = "running"
  /\ sent = <<>>

InitSide == InitSkia /\ InitFolders /\ InitAnalytics

Init == InitCanvas /\ InitEditor /\ InitHook /\ InitSide /\ InitHistory

(***************************************************************************)
(* The canvas under touch events, zoom buttons and tool changes.           *)
(***************************************************************************)
Next ==
  \/ \E p \in GrantTouches : Grant1(p)
  \/ \E ab \in Touches2 : Grant2(ab[1], ab[2])
  \/ TouchStart
  \/ TouchEnd
  \/ \E p \in MoveTouches : Move1(p)
  \/ \E ab \in Touches2 : Move2(ab[1], ab[2])
  \/ Release
  \/ Terminate
  \/ ZoomInButton
  \/ ZoomOutButton
  \/ ResetViewButton
  \/ \E c \in COLORS : handleColorSelect(c)
  \/ \E w \in BRUSH_SIZES : handleBrushSizeSelect(w)
  \/ handleModeToggle

Spec == Init /\ [][Next]_vars

(***************************************************************************)
(* The editor: strokes drawn on the canvas, title edits, the save timer    *)
(* and the storage.                                                        *)
(***************************************************************************)
NextEditor ==
  \/ \E p \in GrantTouches : Grant1(p)
  \/ \E p \in MoveTouches : Move1(p)
  \/ Release
  \/ \E t \in Titles : handleTitleChange(t)
  \/ TimerFire
  \/ SaveNotesDone

SpecEditor == Init /\ [][NextEditor]_vars

(***************************************************************************)
(* The InfiniteCanvas built on useCanvasGestures, in the NoteScreen that   *)
(* hosts it.  The hook's scale, translateX/translateY, isDrawing,          *)
(* currentPath (null is the empty sequence) and its refs are the variables *)
(* of the same names; the screen's currentTool, color and strokeWidth are  *)
(* the fields of currentTool.  The screen's handlePathsChange and          *)
(* debouncedSave are those above.                                          *)
(***************************************************************************)
\* positions of the touch of an erasing gesture
ErasePoints == {<<5, 5>>, <<50, 50>>}

\* values of the eraser size slider
ERASER_SIZES == {15, 30}

Pt(cmd, x, y) == [cmd |-> cmd, x |-> toFixed1(I(x)), y |-> toFixed1(I(y))]

\* stored strokes: every point nearer than 15 to (5,5); every point farther;
\* every point at 15 exactly; a far point followed by a near one
InsidePath ==
  [id |-> <<1, -1>>, d |-> <<Pt("M", 0, 0), Pt("L", 10, 10)>>,
   color |-> "#000000", strokeWidth |-> 2]

OutsidePath ==
  [id |-> <<2, -2>>, d |-> <<Pt("M", 40, 40), Pt("L", 50, 50)>>,
   color |-> "#FF0000", strokeWidth |-> 4]

BoundaryPath ==
  [id |-> <<3, -3>>, d |-> <<Pt("M", 5, 20), Pt("L", 14, 17)>>,
   color |-> "#000000", strokeWidth |-> 4]

PartialPath ==
  [id |-> <<4, -4>>, d |-> <<Pt("M", 5, 30), Pt("L", 5, 8)>>,
   color |-> "#FF0000", strokeWidth |-> 2]

StoredLists ==
  {<<>>, <<InsidePath, OutsidePath>>, <<OutsidePath, BoundaryPath>>,
   <<PartialPath, OutsidePath, BoundaryPath>>,
   <<BoundaryPath, InsidePath, PartialPath, OutsidePath>>}

Sq(a) == Mul(a, a)

\* Math.hypot(dx, dy) < r, on the squares
hypotLess(dx, dy, r) ==
  IF dx.k = "inf" \/ dy.k = "inf" THEN FALSE
  ELSE IF dx.k = "nan" \/ dy.k = "nan" \/ r.k = "nan" THEN FALSE
  ELSE IF r.k = "inf" THEN r.n = 1
  ELSE r.n > 0 /\ Less(Add(Sq(dx), Sq(dy)), Sq(r))

\* the points onErase reads from path data: one per space-separated item
\* with two comma-separated parts, parseFloat of the first part without
\* its 'M' or 'L' and parseFloat of the second part
samplePoints(d) ==
  [i \in DOMAIN d |->
     [x |-> IF d[i].cmd \in {"M", "L"} THEN parseFloat(d[i].x) ELSE NaN,
      y |-> parseFloat(d[i].y)]]

\* the filter of onErase rejects the path: a point nearer than the radius
hit(path, c, r) ==
  \E i \in DOMAIN path.d :
     LET pt == samplePoints(path.d)[i]
     IN  hypotLess(Sub(pt.x, c.x), Sub(pt.y, c.y), r)

\* onErase with twice the radius
gestureOnErase_doubleRadius(p) ==
  LET c == screenToCanvas(p)
      r == Div(I(2 * eraserSize), scale)
      keep(path) == ~hit(path, c, r)
  IN  /\ handlePathsChange(SelectSeq(paths, keep))
      /\ log' = Append(log, Event("erase", p))

\* onErase that cuts the points under the eraser out of each path and
\* drops a path only when no point is left
gestureOnErase_partial(p) ==
  LET c == screenToCanvas(p)
      r == Div(I(eraserSize), scale)
      far(path) ==
        LET pts == samplePoints(path.d)
            out(i) == ~hypotLess(Sub(pts[i].x, c.x), Sub(pts[i].y, c.y), r)
            RECURSIVE cut(_)
            cut(i) == IF i > Len(path.d) THEN <<>>
                      ELSE IF out(i) THEN <<path.d[i]>> \o cut(i + 1)
                      ELSE cut(i + 1)
        IN  [path EXCEPT !.d = cut(1)]
      cutPaths == [i \in DOMAIN paths |-> far(paths[i])]
      keep(path) == path.d # <<>>
  IN  /\ handlePathsChange(SelectSeq(cutPaths, keep))
      /\ log' = Append(log, Event("erase", p))

\* useCanvasGestures.onErase
gestureOnErase(p) ==
  LET c == screenToCanvas(p)
      r == Div(I(eraserSize), scale)
      keep(path) == ~hit(path, c, r)
  IN  /\ handlePathsChange(SelectSeq(paths, keep))
      /\ log' = Append(log, Event("erase", p))

\* onPanResponderGrant of the hook; touches is the sequence of the touches
HookGrant(touches) ==
  /\ Tick /\ nTouches = 0
  /\ nTouches' = Len(touches)
  /\ IF Len(touches) >= 2
     THEN /\ isZooming' = TRUE /\ isPanning' = TRUE
          /\ initialDistance' = MathHypot(touches[1][1] - touches[2][1],
                                          touches[1][2] - touches[2][2])
          /\ lastScale' = scale
          /\ UNCHANGED <<isDrawing, currentPath, editorVars, log, emits,
                         burst>>
     ELSE /\ UNCHANGED <<isZooming, initialDistance, lastScale>>
          /\ IF currentTool.mode = "draw"
             THEN /\ currentPath' = <<Seg("M", screenToCanvas(touches[1]))>>
                  /\ isDrawing' = TRUE
                  /\ UNCHANGED <<isPanning, editorVars, log, emits, burst>>
             ELSE IF currentTool.mode = "pan"
             THEN /\ isPanning' = TRUE
                  /\ UNCHANGED <<isDrawing, currentPath, editorVars, log,
                                 emits, burst>>
             ELSE /\ gestureOnErase(touches[1])
                  /\ UNCHANGED <<isDrawing, currentPath, isPanning>>
  /\ lastTranslate' = translate
  /\ touch0' = touches[1]
  /\ UNCHANGED <<scale, translate, pathIdRef, lastTouch, zoomCenter,
                 currentTool, storeVars, now, eraserSize, eraserPreview,
                 pre, updateCalls>>

\* onResponderMove that moves the eraser preview without erasing
ResponderMove_previewOnly(p) ==
  /\ Tick /\ nTouches > 0
  /\ touch0' = p
  /\ IF currentTool.mode = "erase"
     THEN eraserPreview' = [x |-> p[1], y |-> p[2]]
     ELSE UNCHANGED eraserPreview
  /\ UNCHANGED <<canvasVars, editorVars, currentTool, storeVars, nTouches,
                 now, eraserSize, histVars>>

\* onResponderMove of the canvas view, which replaces the one of the
\* hook's panHandlers; p is the position of touches[0]
ResponderMove(p) ==
  /\ Tick /\ nTouches > 0
  /\ touch0' = p
  /\ IF currentTool.mode = "erase"
     THEN /\ eraserPreview' = [x |-> p[1], y |-> p[2]]
          /\ gestureOnErase(p)
     ELSE UNCHANGED <<eraserPreview, editorVars, log, emits, burst>>
  /\ UNCHANGED <<canvasVars, currentTool, storeVars, nTouches, now,
                 eraserSize, pre, updateCalls>>

\* onResponderRelease of the canvas view, which replaces the one of the
\* hook's panHandlers
ResponderRelease ==
  /\ Tick /\ nTouches > 0
  /\ nTouches' = 0
  /\ eraserPreview' = Null
  /\ UNCHANGED <<canvasVars, editorVars, currentTool, storeVars, now,
                 eraserSize, touch0, histVars>>

\* zoomIn of the hook, from the toolbar
zoomIn ==
  /\ TickZoom /\ nTouches = 0
  /\ scale' = MathMin(Mul(scale, R(12, 10)), I(10))
  /\ UNCHANGED <<currentPath, isDrawing, translate, pathIdRef, lastTouch,
                 isPanning, isZooming, lastScale, lastTranslate,
                 initialDistance, zoomCenter, editorVars, currentTool,
                 storeVars, nTouches, now, hookVars, histVars>>

\* zoomOut of the hook, from the toolbar
zoomOut ==
  /\ TickZoom /\ nTouches = 0
  /\ scale' = MathMax(Div(scale, R(12, 10)), R(1, 10))
  /\ UNCHANGED <<currentPath, isDrawing, translate, pathIdRef, lastTouch,
                 isPanning, isZooming, lastScale, lastTranslate,
                 initialDistance, zoomCenter, editorVars, currentTool,
                 storeVars, nTouches, now, hookVars, histVars>>

\* onToolChange of the toolbar: setCurrentTool
onToolChange(tool) ==
  /\ Tick /\ nTouches = 0
  /\ currentTool' = [currentTool EXCEPT !.mode = tool]
  /\ UNCHANGED <<canvasVars, editorVars, storeVars, nTouches, now,
                 hookVars, histVars>>

\* onEraserSizeChange of the slider shown in erase mode: setEraserSize
onEraserSizeChange(size) ==
  /\ Tick /\ nTouches = 0 /\ currentTool.mode = "erase"
  /\ eraserSize' = size
  /\ UNCHANGED <<canvasVars, editorVars, currentTool, storeVars, nTouches,
                 now, eraserPreview, touch0, histVars>>

\* the editor mounted on a note with stored strokes
InitErase ==
  /\ InitCanvas /\ InitHook /\ InitSide /\ InitHistory
  /\ notes \in {<<[id |-> NoteId, title |-> "A", paths |-> ps]>> :
                  ps \in StoredLists}
  /\ storage = notes /\ writes = <<>>
  /\ note = notes[1] /\ currentNote = note
  /\ title = note.title /\ paths = note.paths
  /\ currentTool = [color |-> "#000000", strokeWidth |-> 2, mode |-> "draw"]
  /\ saveTimeoutRef = 0 /\ timers = {} /\ nextTimer = 1

NextErase ==
  \/ \E p \in ErasePoints : HookGrant(<<p>>)
  \/ \E ab \in Touches2 : HookGrant(ab)
  \/ \E p \in ErasePoints : ResponderMove(p)
  \/ ResponderRelease
  \/ zoomIn
  \/ zoomOut
  \/ \E tool \in {"draw", "erase", "pan"} : onToolChange(tool)
  \/ \E size \in ERASER_SIZES : onEraserSizeChange(size)

SpecErase == InitErase /\ [][NextErase]_vars

(***************************************************************************)
(* The draw functions of useCanvasGestures, called with any positions      *)
(* under the transforms the zoom buttons make.                             *)
(***************************************************************************)
\* positions handed to onDrawStart and onDrawMove
DrawPoints == {<<10, 10>>, <<-7, 3>>, <<5, 5>>}

\* onDrawStart of the hook
onDrawStart(p) ==
  /\ Tick
  /\ currentPath' = <<Seg("M", screenToCanvas(p))>>
  /\ isDrawing' = TRUE
  /\ log' = <<Event("start", p)>>
  /\ UNCHANGED <<scale, translate, pathIdRef, lastTouch, isPanning,
                 isZooming, lastScale, lastTranslate, initialDistance,
                 zoomCenter, editorVars, currentTool, storeVars, nTouches,
                 now, hookVars, pre, emits, updateCalls, burst>>

\* onDrawMove that puts the new segment in front
onDrawMove_prepends(p) ==
  /\ Tick
  /\ IF ~isDrawing
     THEN UNCHANGED <<currentPath, log>>
     ELSE /\ currentPath' = <<Seg("L", screenToCanvas(p))>> \o currentPath
          /\ log' = Append(log, Event("move", p))
  /\ UNCHANGED <<isDrawing, scale, translate, pathIdRef, lastTouch,
                 isPanning, isZooming, lastScale, lastTranslate,
                 initialDistance, zoomCenter, editorVars, currentTool,
                 storeVars, nTouches, now, hookVars, pre, emits, updateCalls,
                 burst>>

\* onDrawMove of the hook
onDrawMove(p) ==
  /\ Tick
  /\ IF ~isDrawing
     THEN UNCHANGED <<currentPath, log>>
     ELSE /\ currentPath' = Append(currentPath, Seg("L", screenToCanvas(p)))
          /\ log' = Append(log, Event("move", p))
  /\ UNCHANGED <<isDrawing, scale, translate, pathIdRef, lastTouch,
                 isPanning, isZooming, lastScale, lastTranslate,
                 initialDistance, zoomCenter, editorVars, currentTool,
                 storeVars, nTouches, now, hookVars, pre, emits, updateCalls,
                 burst>>

\* onDrawEnd of the hook (its onPathsChange call is commented out)
onDrawEnd ==
  /\ Tick
  /\ isDrawing' = FALSE
  /\ currentPath' = <<>>
  /\ log' = <<>>
  /\ UNCHANGED <<scale, translate, pathIdRef, lastTouch, isPanning,
                 isZooming, lastScale, lastTranslate, initialDistance,
                 zoomCenter, editorVars, currentTool, storeVars, nTouches,
                 now, hookVars, pre, emits, updateCalls, burst>>

NextDraw ==
  \/ \E p \in DrawPoints : onDrawStart(p)
  \/ \E p \in DrawPoints : onDrawMove(p)
  \/ onDrawEnd
  \/ zoomIn
  \/ zoomOut

\* the editor mounted on a note without strokes
InitDraw == InitErase /\ paths = <<>>

SpecDraw == InitDraw /\ [][NextDraw]_vars

(***************************************************************************)
(* NotesProvider over stored data of any shape.  Here the d of a path is a *)
(* JSON value [t, v]: a string (v its characters), a number, null or an    *)
(* object.                                                                 *)
(***************************************************************************)
Str(chars) == [t |-> "string", v |-> chars]

\* the d values of stored paths: a path string, the empty string, a string
\* of spaces, a number, null, an object
RawData ==
  {Str(<<"M", "1">>), Str(<<" ", "M", "2">>), Str(<<>>), Str(<<" ", " ">>),
   [t |-> "number", v |-> <<"5">>], [t |-> "null", v |-> <<>>],
   [t |-> "object", v |-> <<>>]}

\* stored path lists: up to two paths, with ids in their order
RawLists ==
  {<<>>}
  \cup {<<[id |-> <<1, -1>>, d |-> a, color |-> "#FF0000",
           strokeWidth |-> 4]>> : a \in RawData}
  \cup {<<[id |-> <<1, -1>>, d |-> a, color |-> "#FF0000", strokeWidth |-> 4],
          [id |-> <<2, -2>>, d |-> b, color |-> "#000000",
           strokeWidth |-> 2]>> : a \in RawData, b \in RawData}

\* String.prototype.trim, on a sequence of characters
RECURSIVE trimStart(_)
trimStart(v) ==
  IF v # <<>> /\ Head(v) = " " THEN trimStart(Tail(v)) ELSE v

RECURSIVE trimEnd(_)
trimEnd(v) ==
  IF v # <<>> /\ v[Len(v)] = " " THEN trimEnd(SubSeq(v, 1, Len(v) - 1))
  ELSE v

trim(v) == trimEnd(trimStart(v))

\* String(path.d) for a d that is not null: a string is itself, a number
\* is its digits, an object is '[object Object]'
StringOf(d) ==
  IF d.t = "object" THEN <<"[object Object]">> ELSE d.v

\* dValue of loadData
dValue(d) ==
  IF d.t = "string" /\ trim(d.v) # <<>> THEN d
  ELSE IF d.t # "null"
       THEN (IF StringOf(d) \notin {<<"[object Object]">>, <<"null">>,
                                    <<"undefined">>}
             THEN Str(StringOf(d)) ELSE Str(<<>>))
  ELSE Str(<<>>)

\* the paths of a note as loadData makes them (the color and strokeWidth
\* of every stored path are a string and a number, which it keeps)
loadPaths(ps) ==
  LET conv == [i \in DOMAIN ps |-> [ps[i] EXCEPT !.d = dValue(ps[i].d)]]
      nonEmpty(path) == path.d # Str(<<>>)
  IN  SelectSeq(conv, nonEmpty)

\* loadData, when the provider mounts
loadData ==
  /\ Tick /\ notes = <<>> /\ writes = <<>>
  /\ notes' = [i \in DOMAIN storage |->
                 [storage[i] EXCEPT !.paths = loadPaths(storage[i].paths)]]
  /\ UNCHANGED <<canvasVars, editorVars, currentTool, currentNote, storage,
                 writes, nTouches, now, hookVars, histVars>>

\* the mount effect of NoteScreen, when getNoteById finds the note
MountEditor ==
  /\ Tick /\ note = Null
  /\ \E i \in DOMAIN notes :
       /\ notes[i].id = NoteId
       /\ note' = notes[i] /\ currentNote' = notes[i]
       /\ title' = notes[i].title /\ paths' = notes[i].paths
  /\ UNCHANGED <<canvasVars, saveTimeoutRef, timers, nextTimer, currentTool,
                 notes, storage, writes, nTouches, now, hookVars, histVars>>

\* handleSave: updateNote with the title and the paths of the editor
handleSave ==
  /\ Tick /\ nTouches = 0 /\ note # Null
  /\ updateNote([notes |-> notes, currentNote |-> currentNote], note.id,
                [title |-> title, paths |-> paths])
  /\ updateCalls' =
       Append(updateCalls, [id |-> note.id,
                            updates |-> [title |-> title, paths |-> paths],
                            burst |-> <<>>])
  /\ UNCHANGED <<canvasVars, editorVars, currentTool, notes, currentNote,
                 storage, nTouches, now, hookVars, log, pre, emits, burst>>

\* the paths the canvas draws: the <Path> elements of paths.map
rendered(ps) ==
  LET ok(path) == ~(path.d.v = <<>> \/ path.d.t # "string"
                     \/ trim(path.d.v) = <<>>)
  IN  SelectSeq(ps, ok)

\* the provider and the editor before they mount, over any stored data
InitStore ==
  /\ InitCanvas /\ InitHook /\ InitSide /\ InitHistory
  /\ storage \in {<<[id |-> NoteId, title |-> "A", paths |-> ps]>> :
                    ps \in RawLists}
  /\ notes = <<>> /\ currentNote = Null /\ writes = <<>>
  /\ note = Null /\ title = "" /\ paths = <<>>
  /\ currentTool = [color |-> "#000000", strokeWidth |-> 2, mode |-> "draw"]
  /\ saveTimeoutRef = 0 /\ timers = {} /\ nextTimer = 1

NextStore ==
  \/ loadData
  \/ MountEditor
  \* the screen shows its title input once the note is set
  \/ note # Null /\ \E t \in Titles : handleTitleChange(t)
  \/ TimerFire
  \/ handleSave
  \/ SaveNotesDone

SpecStore == InitStore /\ [][NextStore]_vars

(***************************************************************************)
(* A session of the editor: strokes, the clearing of the canvas, remounts  *)
(* of the canvas, the save timer and the storage.                          *)
(***************************************************************************)
\* 'Clear' that saves the list it found instead of the empty list
handleClearCanvas_staleSave ==
  /\ Tick /\ nTouches = 0
  /\ paths' = <<>>
  /\ debouncedSave([paths |-> paths])
  /\ emits' = emits + 1
  /\ UNCHANGED <<note, title>>
  /\ Forget
  /\ UNCHANGED <<hookVars, canvasVars, currentTool, storeVars, nTouches,
                 now, updateCalls>>

\* handleClearCanvas with 'Clear' pressed in its alert: setPaths([]) and
\* handlePathsChange([])
handleClearCanvas ==
  /\ Tick /\ nTouches = 0
  /\ handlePathsChange(<<>>)
  /\ Forget
  /\ UNCHANGED <<hookVars, canvasVars, currentTool, storeVars, nTouches,
                 now, updateCalls>>

\* InfiniteCanvas unmounts and mounts again under the same NoteScreen: its
\* state and its refs start anew, pathIdRef included
RemountCanvas ==
  /\ Tick /\ nTouches = 0
  /\ currentPath' = <<>> /\ isDrawing' = FALSE
  /\ scale' = I(1) /\ translate' = Zero2
  /\ pathIdRef' = 0 /\ lastTouch' = <<0, 0>>
  /\ isPanning' = FALSE /\ isZooming' = FALSE
  /\ lastScale' = I(1) /\ lastTranslate' = Zero2
  /\ initialDistance' = I(0) /\ zoomCenter' = Zero2
  /\ Forget
  /\ UNCHANGED <<hookVars, editorVars, currentTool, storeVars, nTouches,
                 now, emits, updateCalls, burst>>

NextSession ==
  \/ \E p \in GrantTouches : Grant1(p)
  \/ \E p \in MoveTouches : Move1(p)
  \/ Release
  \/ handleClearCanvas
  \/ RemountCanvas
  \/ TimerFire
  \/ SaveNotesDone

SpecSession == Init /\ [][NextSession]_vars

(***************************************************************************)
(* The editor with its Save button: edits of the title and of the paths,   *)
(* manual saves, the save timer and the writes of the store.               *)
(***************************************************************************)
NextSave ==
  \/ \E p \in GrantTouches : Grant1(p)
  \/ \E p \in MoveTouches : Move1(p)
  \/ Release
  \/ handleClearCanvas
  \/ \E t \in Titles : handleTitleChange(t)
  \/ handleSave
  \/ TimerFire
  \/ SaveNotesDone

SpecSave == Init /\ [][NextSave]_vars

(***************************************************************************)
(* The notes store used from the note list: NoteCard moves a note to a     *)
(* folder (updateNote), the list deletes a note (deleteNote), the create   *)
(* screen adds one (addNote).  Each call runs on the notes of the render   *)
(* it was made in and queues one write of the whole list.  A note is the   *)
(* subject of at most one call in a behaviour.                             *)
(***************************************************************************)
NoteIds == {"n1", "n2"}

FolderIds == {"f1", "f2"}

\* the folderId of a note that is in no folder
NoFolder == "undefined"

StoredNote(id) ==
  [id |-> id, title |-> "A", paths |-> <<>>, folderId |-> NoFolder]

\* Date.now().toString(), for the readings of the clock of the model
toString(t) == <<"0", "1", "2", "3">>[t + 1]

Called(id) == \E i \in DOMAIN updateCalls : updateCalls[i].id = id

\* NoteCard.handleMoveToFolder: updateNote(note.id, { folderId })
handleMoveToFolder(id, folderId) ==
  /\ Tick /\ ~Called(id)
  /\ \E i \in DOMAIN notes : notes[i].id = id
  /\ \E i \in DOMAIN folders : folders[i].id = folderId
  /\ updateNote([notes |-> notes, currentNote |-> currentNote], id,
                [folderId |-> folderId])
  /\ updateCalls' =
       Append(updateCalls, [op |-> "updateNote", id |-> id,
                            updates |-> [folderId |-> folderId]])
  /\ UNCHANGED <<canvasVars, editorVars, currentTool, notes, currentNote,
                 storage, nTouches, now, hookVars, log, pre, emits, burst>>

\* deleteNote up to the await in saveNotes, from the Delete button of the
\* list
deleteNote(id) ==
  /\ Tick /\ ~Called(id)
  /\ \E i \in DOMAIN notes : notes[i].id = id
  /\ writes' = Append(writes,
                 [op |-> "deleteNote", id |-> id,
                  notes |-> SelectSeq(notes, LAMBDA n : n.id # id),
                  currentNote |-> currentNote])
  /\ updateCalls' =
       Append(updateCalls, [op |-> "deleteNote", id |-> id,
                            updates |-> Null])
  /\ UNCHANGED <<canvasVars, editorVars, currentTool, notes, currentNote,
                 storage, nTouches, now, hookVars, log, pre, emits, burst>>

\* addNote up to the await in saveNotes, from the create screen; the id of
\* the note is the text of Date.now()
addNote ==
  /\ Tick
  /\ \E t \in now..MaxClock : now' = t
  /\ ~Called(toString(now'))
  /\ LET newNote == [id |-> toString(now'), title |-> "Untitled Note",
                     paths |-> <<>>]
     IN  /\ writes' = Append(writes,
                        [op |-> "addNote", id |-> newNote.id,
                         notes |-> <<newNote>> \o notes,
                         currentNote |-> currentNote])
         /\ updateCalls' =
              Append(updateCalls, [op |-> "addNote", id |-> newNote.id,
                                   updates |-> newNote])
  /\ UNCHANGED <<canvasVars, editorVars, currentTool, notes, currentNote,
                 storage, nTouches, hookVars, log, pre, emits, burst>>

\* the notes write of a deleteNote, of an addNote or of a deleteFolder
\* resolves: the rest of saveNotes and of the call
SaveNotesResolved ==
  /\ Tick /\ writes # <<>>
  /\ LET w == Head(writes)
     IN  /\ w.op \in {"deleteNote", "addNote", "deleteFolder"}
         /\ storage' = w.notes
         /\ notes' = w.notes
         /\ currentNote' =
              IF /\ w.op = "deleteNote"
                 /\ w.currentNote # Null /\ w.currentNote.id = w.id
              THEN Null ELSE currentNote
  /\ writes' = Tail(writes)
  /\ UNCHANGED <<hookVars, canvasVars, editorVars, currentTool, nTouches, now,
                 histVars>>

IsUpdateWrite(w) == "op" \notin DOMAIN w

InitNotes ==
  /\ InitCanvas /\ InitHook /\ InitSide /\ InitHistory
  /\ notes = <<StoredNote("n1"), StoredNote("n2")>>
  /\ storage = notes /\ writes = <<>> /\ currentNote = Null
  /\ note = Null /\ title = "" /\ paths = <<>>
  /\ currentTool = [color |-> "#000000", strokeWidth |-> 2, mode |-> "draw"]
  /\ saveTimeoutRef = 0 /\ timers = {} /\ nextTimer = 1

NextNotes ==
  \/ \E id \in NoteIds, f \in FolderIds : handleMoveToFolder(id, f)
  \/ \E id \in NoteIds : deleteNote(id)
  \/ addNote
  \/ (writes # <<>> /\ IsUpdateWrite(Head(writes))) /\ SaveNotesDone
  \/ (writes # <<>> /\ ~IsUpdateWrite(Head(writes))) /\ SaveNotesResolved

SpecNotes == InitNotes /\ [][NextNotes]_vars

(***************************************************************************)
(* The folders of the store: deleteFolder, addFolder (from the create      *)
(* screen) and the moves of notes into folders.  A folder write and a      *)
(* notes write are both AsyncStorage.setItem calls and resolve in the      *)
(* order they were made.  A folder is the subject of at most one call.     *)
(***************************************************************************)
\* deleteFolder up to the await in saveFolders; the rest of it runs on the
\* notes of the same closure
deleteFolder(id) ==
  /\ Count /\ ~Called(id)
  /\ \E i \in DOMAIN folders : folders[i].id = id
  /\ writes' = Append(writes,
                 [op |-> "saveFolders", id |-> id,
                  folders |-> SelectSeq(folders, LAMBDA f : f.id # id),
                  notes |-> notes, then |-> "deleteFolder"])
  /\ updateCalls' =
       Append(updateCalls, [op |-> "deleteFolder", id |-> id,
                            updates |-> Null])
  /\ UNCHANGED <<canvasVars, editorVars, currentTool, notes, currentNote,
                 storage, nTouches, now, hookVars, sideVars, log, pre,
                 emits, burst>>

\* addFolder up to the await in saveFolders; the id of the folder is the
\* text of Date.now()
addFolder ==
  /\ Count
  /\ \E t \in now..MaxClock : now' = t
  /\ ~Called(toString(now'))
  /\ writes' = Append(writes,
                 [op |-> "saveFolders", id |-> toString(now'),
                  folders |-> Append(folders, Folder(toString(now'))),
                  notes |-> notes, then |-> "done"])
  /\ updateCalls' =
       Append(updateCalls, [op |-> "addFolder", id |-> toString(now'),
                            updates |-> Null])
  /\ UNCHANGED <<canvasVars, editorVars, currentTool, notes, currentNote,
                 storage, nTouches, hookVars, sideVars, log, pre, emits,
                 burst>>

\* a folder write resolves: the rest of saveFolders, and the second half of
\* deleteFolder up to the await in saveNotes
SaveFoldersResolved ==
  /\ Count /\ writes # <<>>
  /\ LET w == Head(writes)
         updatedNotes ==
           [i \in DOMAIN w.notes |->
              IF w.notes[i].folderId = w.id
              THEN [w.notes[i] EXCEPT !.folderId = NoFolder]
              ELSE w.notes[i]]
     IN  /\ w.op = "saveFolders"
         /\ folderStorage' = w.folders
         /\ folders' = w.folders
         /\ writes' =
              IF w.then = "deleteFolder"
              THEN Append(Tail(writes),
                     [op |-> "deleteFolder", id |-> w.id,
                      notes |-> updatedNotes, currentNote |-> currentNote])
              ELSE Tail(writes)
  /\ UNCHANGED <<canvasVars, editorVars, currentTool, notes, currentNote,
                 storage, nTouches, now, hookVars, skiaVars, analyticsVars,
                 histVars>>

IsFoldersWrite(w) == ~IsUpdateWrite(w) /\ w.op = "saveFolders"

NextFolders ==
  \/ \E id \in FolderIds : deleteFolder(id)
  \/ addFolder
  \/ \E id \in NoteIds, f \in FolderIds : handleMoveToFolder(id, f)
  \/ (writes # <<>> /\ IsUpdateWrite(Head(writes))) /\ SaveNotesDone
  \/ (writes # <<>> /\ IsFoldersWrite(Head(writes))) /\ SaveFoldersResolved
  \/ (/\ writes # <<>> /\ ~IsUpdateWrite(Head(writes))
      /\ ~IsFoldersWrite(Head(writes))) /\ SaveNotesResolved

\* the store with the note n1 in the folder f1
InitFiled ==
  /\ InitCanvas /\ InitHook /\ InitSide /\ InitHistory
  /\ notes = <<[StoredNote("n1") EXCEPT !.folderId = "f1"], StoredNote("n2")>>
  /\ storage = notes /\ writes = <<>> /\ currentNote = Null
  /\ note = Null /\ title = "" /\ paths = <<>>
  /\ currentTool = [color |-> "#000000", strokeWidth |-> 2, mode |-> "draw"]
  /\ saveTimeoutRef = 0 /\ timers = {} /\ nextTimer = 1

SpecFolders == InitFiled /\ [][NextFolders]_vars

(***************************************************************************)
(* AdvancedDrawingCanvas: point simplification, curve fitting and the      *)
(* strokes of the Skia canvas.  A point is [x, y] with integer             *)
(* coordinates; an SkPath is the sequence of its commands, moveTo "M" and  *)
(* lineTo "L" with [x, y], cubicTo "C" with [c1x, c1y, c2x, c2y, x, y].    *)
(* The view transform of this canvas stays at its initial identity, so the *)
(* handlers receive canvas points.                                         *)
(***************************************************************************)
vec(x, y) == [x |-> x, y |-> y]

\* the points of the touch events
SkPoints == {vec(0, 0), vec(1, 0), vec(2, 0), vec(3, 0), vec(0, 3)}

\* the comparison of simplifyPoints, had it kept a point at the tolerance
distanceExceeds_orEqual(current, lastPoint, tolerance) ==
  (current.x - lastPoint.x) * (current.x - lastPoint.x)
    + (current.y - lastPoint.y) * (current.y - lastPoint.y)
    >= tolerance * tolerance

\* Math.sqrt(dx^2 + dy^2) > tolerance, for integer coordinates and tolerance
distanceExceeds(current, lastPoint, tolerance) ==
  (current.x - lastPoint.x) * (current.x - lastPoint.x)
    + (current.y - lastPoint.y) * (current.y - lastPoint.y)
    > tolerance * tolerance

\* the loop of simplifyPoints from index i (1-based) on
RECURSIVE simplifyLoop(_, _, _, _, _)
simplifyLoop(points, tolerance, i, simplified, lastPoint) ==
  IF i > Len(points) - 1
  THEN simplified
  ELSE IF distanceExceeds(points[i], lastPoint, tolerance)
       THEN simplifyLoop(points, tolerance, i + 1,
                         Append(simplified, points[i]), points[i])
       ELSE simplifyLoop(points, tolerance, i + 1, simplified, lastPoint)

\* simplifyPoints with the default tolerance, as all its callers use it
simplifyPoints(points) ==
  IF Len(points) <= 2
  THEN points
  ELSE Append(simplifyLoop(points, 2, 2, <<points[1]>>, points[1]),
              points[Len(points)])

moveTo(pt) == [cmd |-> "M", x |-> I(pt.x), y |-> I(pt.y)]

lineTo(pt) == [cmd |-> "L", x |-> I(pt.x), y |-> I(pt.y)]

\* the cubicTo of the loop of createSmoothPath at index i (0-based),
\* tension 0.3
cubicAt(points, i) ==
  LET prev == points[i]
      current == points[i + 1]
      next == points[i + 2]
      tension == R(3, 10)
  IN  [cmd |-> "C",
       c1x |-> Add(I(current.x), Mul(I(next.x - prev.x), tension)),
       c1y |-> Add(I(current.y), Mul(I(next.y - prev.y), tension)),
       c2x |-> Sub(I(next.x), Mul(I(next.x - current.x), tension)),
       c2y |-> Sub(I(next.y), Mul(I(next.y - current.y), tension)),
       x |-> I(next.x), y |-> I(next.y)]

\* createSmoothPath with the default tension
createSmoothPath(points) ==
  IF Len(points) < 2
  THEN <<>>
  ELSE IF Len(points) = 2
  THEN <<moveTo(points[1]), lineTo(points[2])>>
  ELSE <<moveTo(points[1])>> \o
       [i \in 1..(Len(points) - 2) |-> cubicAt(points, i)]

\* startStroke, from the start of a touch
startStroke(point) ==
  /\ Count /\ nTouches = 0 /\ currentTool.mode = "draw"
  /\ nTouches' = 1
  /\ pathIdRef' = pathIdRef + 1
  /\ \E t \in now..MaxClock : now' = t
  /\ currentStroke' =
       [id |-> <<pathIdRef', now'>>, path |-> <<>>,
        color |-> currentTool.color, strokeWidth |-> currentTool.strokeWidth,
        points |-> <<point>>, smoothedPoints |-> <<point>>,
        timestamp |-> now']
  /\ currentPoints' = <<point>>
  /\ isDrawing' = TRUE
  /\ UNCHANGED <<currentPath, scale, translate, lastTouch, isPanning,
                 isZooming, lastScale, lastTranslate, initialDistance,
                 zoomCenter, editorVars, currentTool, storeVars, hookVars,
                 strokes, folderVars, analyticsVars, histVars>>

\* updateStroke, from a move of the touch while isDrawing
updateStroke(point) ==
  /\ Count /\ nTouches = 1 /\ currentTool.mode = "draw" /\ isDrawing
  /\ IF currentStroke = Null
     THEN UNCHANGED <<currentStroke, currentPoints>>
     ELSE LET newPoints == Append(currentPoints, point)
              simplifiedPoints == simplifyPoints(newPoints)
              smoothedPath == createSmoothPath(simplifiedPoints)
          IN  /\ currentPoints' = newPoints
              /\ currentStroke' =
                   [currentStroke EXCEPT !.path = smoothedPath,
                                         !.points = newPoints,
                                         !.smoothedPoints = simplifiedPoints]
  /\ UNCHANGED <<canvasVars, editorVars, currentTool, storeVars, nTouches,
                 now, hookVars, strokes, folderVars, analyticsVars, histVars>>

\* finishStroke, from the end of the touch; onStrokesChange replaces the
\* strokes prop
finishStroke ==
  /\ Count /\ nTouches = 1 /\ currentTool.mode = "draw"
  /\ nTouches' = 0
  /\ IF currentStroke = Null
     THEN UNCHANGED <<currentStroke, currentPoints, strokes, isDrawing>>
     ELSE LET finalStroke ==
                [currentStroke EXCEPT
                   !.points = currentPoints,
                   !.smoothedPoints = simplifyPoints(currentPoints)]
          IN  /\ strokes' = Append(strokes, finalStroke)
              /\ currentStroke' = Null
              /\ currentPoints' = <<>>
              /\ isDrawing' = FALSE
  /\ UNCHANGED <<currentPath, scale, translate, pathIdRef, lastTouch,
                 isPanning, isZooming, lastScale, lastTranslate,
                 initialDistance, zoomCenter, editorVars, currentTool,
                 storeVars, now, hookVars, folderVars, analyticsVars,
                 histVars>>

NextSkia ==
  \/ \E point \in SkPoints : startStroke(point)
  \/ \E point \in SkPoints : updateStroke(point)
  \/ finishStroke

SpecSkia == Init /\ [][NextSkia]_vars

(***************************************************************************)
(* AnalyticsService: the buffers of the singleton, their batching and the  *)
(* configuration methods.  An item keeps its name and its timestamp; one   *)
(* handler reads the clock once.  sendToAnalytics logs the batch before    *)
(* its delay, so a batch is on record when flush clears the buffers.       *)
(***************************************************************************)
EventNames == {"screen_view"}

MetricNames == {"app_start_time"}

ErrorNames == {"Error"}

BatchSizes == {0, 1, 2, 3}

restVars ==
  <<canvasVars, editorVars, currentTool, storeVars, nTouches, hookVars,
    skiaVars, folderVars, histVars>>

totalItems(evs, mes, ers) == Len(evs) + Len(mes) + Len(ers)

batchReached_exceeds(total) == total > batchSize

\* the test of checkBatchSize
batchReached(total) == total >= batchSize

\* flush on the buffers evs, mes, ers at the clock reading t
flush(evs, mes, ers, t) ==
  IF evs = <<>> /\ mes = <<>> /\ ers = <<>>
  THEN /\ events' = evs /\ metrics' = mes /\ errors' = ers
       /\ sent' = sent
  ELSE /\ events' = <<>> /\ metrics' = <<>> /\ errors' = <<>>
       /\ sent' = Append(sent, [events |-> evs, metrics |-> mes,
                                errors |-> ers, timestamp |-> t])

checkBatchSize(evs, mes, ers, t) ==
  IF batchReached(totalItems(evs, mes, ers))
  THEN flush(evs, mes, ers, t)
  ELSE /\ events' = evs /\ metrics' = mes /\ errors' = ers
       /\ sent' = sent

Item(name, t) == [name |-> name, timestamp |-> t]

trackEvent(name) ==
  /\ Count
  /\ IF ~isEnabled
     THEN UNCHANGED <<now, events, metrics, errors, sent>>
     ELSE /\ \E t \in now..MaxClock : now' = t
          /\ checkBatchSize(Append(events, Item(name, now')), metrics,
                            errors, now')
  /\ UNCHANGED <<isEnabled, batchSize, flushTimer, restVars>>

trackPerformance(name) ==
  /\ Count
  /\ IF ~isEnabled
     THEN UNCHANGED <<now, events, metrics, errors, sent>>
     ELSE /\ \E t \in now..MaxClock : now' = t
          /\ checkBatchSize(events, Append(metrics, Item(name, now')),
                            errors, now')
  /\ UNCHANGED <<isEnabled, batchSize, flushTimer, restVars>>

trackError(name) ==
  /\ Count
  /\ IF ~isEnabled
     THEN UNCHANGED <<now, events, metrics, errors, sent>>
     ELSE /\ \E t \in now..MaxClock : now' = t
          /\ checkBatchSize(events, metrics,
                            Append(errors, Item(name, now')), now')
  /\ UNCHANGED <<isEnabled, batchSize, flushTimer, restVars>>

\* the callback of the interval of startPeriodicFlush
periodicFlush ==
  /\ Count /\ flushTimer = "running"
  /\ \E t \in now..MaxClock : now' = t
  /\ flush(events, metrics, errors, now')
  /\ UNCHANGED <<isEnabled, batchSize, flushTimer, restVars>>

setEnabled(enabled) ==
  /\ Count
  /\ isEnabled' = enabled
  /\ UNCHANGED <<events, metrics, errors, sent, batchSize, flushTimer, now,
                 restVars>>

setBatchSize(size) ==
  /\ Count
  /\ batchSize' = size
  /\ UNCHANGED <<events, metrics, errors, sent, isEnabled, flushTimer, now,
                 restVars>>

\* flushTimer holds the id of an interval from the construction on, so the
\* interval is started again even after destroy
setFlushInterval ==
  /\ Count
  /\ flushTimer' = "running"
  /\ UNCHANGED <<events, metrics, errors, sent, isEnabled, batchSize, now,
                 restVars>>

destroy ==
  /\ Count
  /\ flushTimer' = "cleared"
  /\ \E t \in now..MaxClock : now' = t
  /\ flush(events, metrics, errors, now')
  /\ UNCHANGED <<isEnabled, batchSize, restVars>>

clearData ==
  /\ Count
  /\ events' = <<>> /\ metrics' = <<>> /\ errors' = <<>>
  /\ UNCHANGED <<sent, isEnabled, batchSize, flushTimer, now, restVars>>

TrackCall ==
  \/ \E name \in EventNames : trackEvent(name)
  \/ \E name \in MetricNames : trackPerformance(name)
  \/ \E name \in ErrorNames : trackError(name)

NextAnalytics ==
  \/ \E name \in EventNames : trackEvent(name)
  \/ \E name \in MetricNames : trackPerformance(name)
  \/ \E name \in ErrorNames : trackError(name)
  \/ periodicFlush
  \/ \E enabled \in BOOLEAN : setEnabled(enabled)
  \/ \E size \in BatchSizes : setBatchSize(size)
  \/ setFlushInterval
  \/ destroy
  \/ clearData

SpecAnalytics == Init /\ [][NextAnalytics]_vars

(***************************************************************************)
(* Properties of the canvas.                                               *)
(***************************************************************************)
Last(seq) == seq[Len(seq)]

Ended(e) == log # <<>> /\ Last(log).e = e

\* the gesture on record began with one touch in draw mode
DrawGesture == log # <<>> /\ log[1].e = "grant1" /\ log[1].mode = "draw"

\* the move events on record
Moves(e) == {i \in DOMAIN log : log[i].e = e}

\* C1: after any sequence of pinch moves, zoom button presses and view
\* resets, scale is a finite number within [0.1, 10].
C1_ScaleWithinBounds ==
  IsFinite(scale) /\ Leq(R(1, 10), scale) /\ Leq(scale, I(10))

\* C2: a draw gesture of a touch-down followed by a release, with no move
\* between them, appends no path and does not call onPathsChange.
C2_ZeroLengthStrokeExcluded ==
  (DrawGesture /\ Len(log) = 2 /\ Ended("release"))
    => (paths = pre /\ timers = {})

\* C3: when a second touch lands on a draw gesture that has accumulated
\* points, the two-touch moves are handled as zoom and the release commits
\* no path of the stroke.
C3_TwoFingerAbort ==
  (DrawGesture /\ \E i \in Moves("move1"), j \in Moves("move2") : i < j)
    => /\ Ended("move2") => isZooming
       /\ Ended("release") => paths = pre

\* C4: a terminate event discards the stroke in progress: the path list is
\* unchanged and onPathsChange is not called, whatever came before.
C4_TerminateDiscards ==
  [][(nTouches > 0 /\ nTouches' = 0 /\ Last(log').e = "terminate")
       => (paths' = paths /\ emits' = emits /\ timers' = timers
           /\ currentPath' = <<>> /\ ~isDrawing')]_vars

C4_Witness ==
  /\ DrawGesture /\ Ended("terminate") /\ Moves("move1") # {}
  /\ paths = pre /\ pre # <<>>

\* the path data of the touches on record: M for the touch-down, L for every
\* move, each in the canvas coordinates of its transform, one decimal
ExpectedData ==
  [i \in 1..(Len(log) - 1) |->
     [cmd |-> IF i = 1 THEN "M" ELSE "L",
      x |-> toFixed1(Div(Sub(I(log[i].p[1]), log[i].t.x), log[i].s)),
      y |-> toFixed1(Div(Sub(I(log[i].p[2]), log[i].t.y), log[i].s))]]

\* a draw gesture of a touch-down and n >= 1 one-touch moves was released
StrokeReleased ==
  /\ DrawGesture /\ Ended("release") /\ Len(log) >= 3
  /\ \A i \in 2..(Len(log) - 1) : log[i].e = "move1"

\* C5: the release of a draw gesture with touch-down p0 and moves p1..pn,
\* n >= 1, appends exactly one path after the unchanged earlier paths; its
\* data is M<p0> L<p1> .. L<pn> in canvas coordinates with one decimal, and
\* its color and strokeWidth are those of the current tool.
C5_StrokeCommit ==
  StrokeReleased =>
    /\ Len(paths) = Len(pre) + 1
    /\ SubSeq(paths, 1, Len(pre)) = pre
    /\ Last(paths).d = ExpectedData
    /\ Last(paths).color = currentTool.color
    /\ Last(paths).strokeWidth = currentTool.strokeWidth

\* the stroke of the scenario, red, after a stored path
C5_Witness ==
  /\ StrokeReleased /\ pre = <<StoredPath>> /\ Len(paths) = 2
  /\ Last(paths).color = "#FF0000" /\ Last(paths).strokeWidth = 2
  /\ Last(paths).d =
       <<[cmd |-> "M", x |-> toFixed1(I(10)), y |-> toFixed1(I(10))],
         [cmd |-> "L", x |-> toFixed1(I(20)), y |-> toFixed1(I(10))],
         [cmd |-> "L", x |-> toFixed1(I(20)), y |-> toFixed1(I(20))]>>

\* C6: from the touch-down to the release of a gesture no step changes the
\* path list or calls onPathsChange; the stroke lives in currentPath only.
C6_NoPathBeforeRelease ==
  [][nTouches' > 0 => (paths' = paths /\ emits' = emits /\ timers' = timers)]_vars

C6_Witness ==
  /\ DrawGesture /\ nTouches = 1 /\ isDrawing
  /\ Len(currentPath) = 3 /\ paths = pre /\ emits = 0

(***************************************************************************)
(* C7 - Debounced save: at most one save timer is pending at any time; a   *)
(* mutation arriving while a save is pending replaces it, so the pending   *)
(* timer is the one of the last mutation, and every updateNote call ends a *)
(* burst of one or more mutations and carries the last of them.            *)
(***************************************************************************)
C7_DebouncedSave ==
  /\ Cardinality(timers) <= 1
  /\ (timers = {}) <=> (burst = <<>>)
  /\ \A t \in timers : t.id = saveTimeoutRef /\ t.updates = Last(burst)
  /\ \A i \in DOMAIN updateCalls :
        /\ updateCalls[i].burst # <<>>
        /\ updateCalls[i].updates = Last(updateCalls[i].burst)
        /\ updateCalls[i].id = NoteId

\* a burst of three mutations, a title among them and a path list last, has
\* been saved by one call and nothing is pending
C7_Witness ==
  /\ timers = {}
  /\ Len(updateCalls) = 1
  /\ Len(updateCalls[1].burst) = 3
  /\ "title" \in DOMAIN updateCalls[1].burst[1]
  /\ "paths" \in DOMAIN updateCalls[1].burst[3]

(***************************************************************************)
(* C8 - Cumulative save: once the edits of a note are followed by a quiet  *)
(* period (no save timer pending, no write in flight), the persisted note  *)
(* has the title and the paths of the editor.                              *)
(***************************************************************************)
C8_CumulativeSave ==
  (timers = {} /\ writes = <<>> /\ nTouches = 0) =>
     \A i \in DOMAIN storage :
        storage[i].id = NoteId =>
           storage[i].title = title /\ storage[i].paths = paths

(***************************************************************************)
(* Properties of the eraser.                                               *)
(***************************************************************************)
Range(seq) == {seq[i] : i \in DOMAIN seq}

\* the square of the distance of a sample point from c
DistSq(pt, c) == Add(Sq(Sub(pt.x, c.x)), Sq(Sub(pt.y, c.y)))

Nearer(pt, c, r) == Less(DistSq(pt, c), Sq(r))

Within(pt, c, r) == Leq(DistSq(pt, c), Sq(r))

Farther(pt, c, r) == Less(Sq(r), DistSq(pt, c))

\* the erase point, in canvas units, and the radius of the erase that the
\* step performs
ErasePoint == screenToCanvas(Last(log').p)

EraseRadius == Div(I(eraserSize), scale)

\* a is b without some of its elements
IsSubSeq(a, b) ==
  \E f \in [DOMAIN a -> DOMAIN b] :
     /\ \A i \in DOMAIN a : a[i] = b[f[i]]
     /\ \A i, j \in DOMAIN a : i < j => f[i] < f[j]

(***************************************************************************)
(* C9 - Eraser completeness, as claimed: an erase at c with radius r       *)
(* (eraserSize / scale) removes every path with a sample point at distance *)
(* at most r from c and keeps every path whose sample points are all       *)
(* farther than r from c.                                                  *)
(***************************************************************************)
C9_EraserCompleteness ==
  [][emits' # emits =>
       \A i \in DOMAIN paths :
          LET pts == Range(samplePoints(paths[i].d))
          IN  /\ (\E pt \in pts : Within(pt, ErasePoint, EraseRadius))
                    => paths[i] \notin Range(paths')
              /\ (\A pt \in pts : Farther(pt, ErasePoint, EraseRadius))
                    => paths[i] \in Range(paths')]_vars

(***************************************************************************)
(* C9 amended - an erase at c with radius r removes exactly the paths with *)
(* a sample point at distance strictly less than r from c: a path whose    *)
(* sample points are all at distance r or more is kept.                    *)
(***************************************************************************)
C9_EraserStrict ==
  [][emits' # emits =>
       \A i \in DOMAIN paths :
          LET pts == Range(samplePoints(paths[i].d))
          IN  (paths[i] \notin Range(paths'))
                 <=> (\E pt \in pts : Nearer(pt, ErasePoint, EraseRadius))]_vars

\* an erase at (5,5) with radius 15 has removed the strokes with a nearer
\* point and kept the stroke whose points are at 15 exactly
C9_Witness ==
  /\ note.paths = <<BoundaryPath, InsidePath, PartialPath, OutsidePath>>
  /\ paths = <<BoundaryPath, OutsidePath>>
  /\ emits = 1 /\ Last(log).e = "erase" /\ Last(log).p = <<5, 5>>
  /\ eraserSize = 15 /\ scale = I(1)

(***************************************************************************)
(* C10 - Whole-stroke erasure: the list an erase emits is the input list   *)
(* without some of its paths: the survivors are unmodified and in their    *)
(* order, no path is split or created.  Of two paths, the first with every *)
(* point inside the radius and the second with every point outside, only   *)
(* the second remains.                                                     *)
(***************************************************************************)
C10_WholeStrokeErasure ==
  [][emits' # emits =>
       /\ IsSubSeq(paths', paths)
       /\ (/\ Len(paths) = 2
           /\ paths[1].d # <<>>
           /\ \A pt \in Range(samplePoints(paths[1].d)) :
                 Nearer(pt, ErasePoint, EraseRadius)
           /\ \A pt \in Range(samplePoints(paths[2].d)) :
                 Farther(pt, ErasePoint, EraseRadius))
             => paths' = <<paths[2]>>]_vars

\* the erase at (5,5) with radius 15 of a stroke inside and a stroke outside
C10_Witness ==
  /\ note.paths = <<InsidePath, OutsidePath>>
  /\ paths = <<OutsidePath>>
  /\ emits = 1 /\ Last(log).e = "erase" /\ Last(log).p = <<5, 5>>
  /\ eraserSize = 15 /\ scale = I(1)

ValidData(d) == d.t = "string" /\ trim(d.v) # <<>>

ValidPath(path) == ValidData(path.d)

AllValid(ns) ==
  \A i \in DOMAIN ns : \A j \in DOMAIN ns[i].paths :
     ValidPath(ns[i].paths[j])

C12_PathValidity ==
  [][
      /\ (notes = <<>> /\ notes' # <<>>) =>
           (\A i \in DOMAIN storage :
               notes'[i].paths = SelectSeq(storage[i].paths, ValidPath))
      /\ (Len(writes') < Len(writes)) => AllValid(storage')
      /\ (\A j \in DOMAIN rendered(paths') :
             ValidPath(rendered(paths')[j]))
  ]_vars

(***************************************************************************)
(* C13 - Path id uniqueness: the id given to a path at its commit is not   *)
(* the id of any path committed before, in the list or no longer in it:    *)
(* in the sequence of the path lists that the editor has held (the stored  *)
(* list, then every list handed to handlePathsChange), a list that is its  *)
(* predecessor plus one path has a new path whose id is in no earlier list.*)
(***************************************************************************)
RECURSIVE Flatten(_)
Flatten(ss) == IF ss = <<>> THEN <<>> ELSE Head(ss) \o Flatten(Tail(ss))

PathUpdates(us) ==
  LET hasPaths(u) == "paths" \in DOMAIN u
  IN  SelectSeq(us, hasPaths)

\* the path lists of the editor, in their order
ListsHeld ==
  LET saved == Flatten([i \in DOMAIN updateCalls |-> updateCalls[i].burst])
      us == PathUpdates(saved \o burst)
  IN  <<note.paths>> \o [i \in DOMAIN us |-> us[i].paths]

Ids(ps) == {ps[i].id : i \in DOMAIN ps}

C13_PathIdUnique ==
  \A k \in 2..Len(ListsHeld) :
     Len(ListsHeld[k]) = Len(ListsHeld[k - 1]) + 1 =>
        \A j \in 1..(k - 1) : Last(ListsHeld[k]).id \notin Ids(ListsHeld[j])

(***************************************************************************)
(* C15 - Idempotent clear: a confirmed 'Clear' leaves the path list empty  *)
(* and one pending save of the empty list; a second 'Clear' right after    *)
(* the first leaves the same path list, title, notes and pending save      *)
(* (the timer is a new one), and the write of that save stores an empty    *)
(* path list.                                                              *)
(***************************************************************************)
PendingUpdates(ts) == {t.updates : t \in ts}

C15_IdempotentClear ==
  [][
      /\ (emits' = emits + 1 /\ paths' = <<>>) =>
            /\ PendingUpdates(timers') = {[paths |-> <<>>]}
            /\ Cardinality(timers') = 1
            /\ title' = title /\ notes' = notes /\ storage' = storage
            /\ (burst # <<>> /\ Last(burst) = [paths |-> <<>>]) =>
                  /\ paths' = paths
                  /\ PendingUpdates(timers') = PendingUpdates(timers)
      /\ (/\ Len(writes') < Len(writes)
          /\ Head(writes).updates = [paths |-> <<>>]) =>
            \A i \in DOMAIN storage' :
               storage'[i].id = NoteId => storage'[i].paths = <<>>
  ]_vars

\* 'Clear' confirmed twice in a row on a note with a stored stroke, then
\* the save has fired and its write is done
C15_Witness ==
  /\ note.paths # <<>> /\ paths = <<>>
  /\ Len(updateCalls) = 1
  /\ updateCalls[1].burst = <<[paths |-> <<>>], [paths |-> <<>>]>>
  /\ writes = <<>> /\ timers = {}
  /\ storage[1].paths = <<>>

(***************************************************************************)
(* C14 - Committed strokes are immutable under tool changes: a change of   *)
(* the tool's color, strokeWidth or mode leaves the path list as it is     *)
(* (every path keeps its id, data, color and strokeWidth) and does not     *)
(* call onPathsChange, so no save is scheduled either.                     *)
(***************************************************************************)
C14_ToolChangeKeepsPaths ==
  [][currentTool' # currentTool =>
       paths' = paths /\ emits' = emits /\ timers' = timers]_vars

\* a stroke drawn in black at width 2, then the color, the width and the
\* mode of the tool changed
C14_Witness ==
  /\ pathIdRef = 1 /\ paths # <<>>
  /\ Last(paths).id[1] = 1
  /\ Last(paths).color = "#000000" /\ Last(paths).strokeWidth = 2
  /\ currentTool = [color |-> "#FF0000", strokeWidth |-> 4, mode |-> "erase"]

(***************************************************************************)
(* C16 - Transform inverse: under every transform with scale > 0,          *)
(* canvasToScreen(screenToCanvas(x, y)) is (x, y) for every screen point,  *)
(* and screenToCanvas(canvasToScreen(c)) is c for every canvas point (the  *)
(* numbers are exact here, so the two are equal).                          *)
(***************************************************************************)
PointOf(p) == [x |-> I(p[1]), y |-> I(p[2])]

ScreenOf(c) == canvasToScreen(c)

CanvasOf(s) == screenToCanvasAt(s.x, s.y, scale, translate)

C16_TransformInverse ==
  Less(I(0), scale) =>
     \A p \in GrantTouches \cup MoveTouches \cup {<<0, 0>>, <<-7, 3>>} :
        /\ ScreenOf(screenToCanvas(p)) = PointOf(p)
        /\ CanvasOf(ScreenOf(PointOf(p))) = PointOf(p)

(***************************************************************************)
(* C17 - Descriptor round-trip: the path string that onDrawStart and       *)
(* onDrawMove build from a sequence of canvas points is read by the        *)
(* decoder of onErase as the same number of points in the same order,      *)
(* each the original point rounded to one decimal digit.                   *)
(***************************************************************************)
\* a finite number rounded to one decimal digit, half away from zero
Round1(a) ==
  R(Sgn(a.n) * ((20 * Abs(a.n) + a.d) \div (2 * a.d)), 10)

\* the canvas point of a drawing event on record
CanvasPointOf(ev) == screenToCanvasAt(I(ev.p[1]), I(ev.p[2]), ev.s, ev.t)

C18_ZoomDegeneracyGuard ==
  [][(isZooming /\ initialDistance = I(0) /\ nTouches = 2 /\ nTouches' = 2)
       => /\ scale' = scale /\ IsFinite(scale')
          /\ IsFinite(translate'.x) /\ IsFinite(translate'.y)]_vars

(***************************************************************************)
(* C19 - Anchored zoom: after every move of a pinch that leaves scale in   *)
(* the clamp range, the canvas point that was under the pinch midpoint     *)
(* before the move is under it after the move: canvasToScreen with the new *)
(* scale and translate maps it to the midpoint.                            *)
(***************************************************************************)
PinchMoveStep ==
  /\ isZooming /\ nTouches = 2 /\ nTouches' = 2
  /\ Len(log') = Len(log) + 1

C19_AnchoredZoom ==
  [][(PinchMoveStep /\ Leq(R(1, 10), scale') /\ Leq(scale', I(10))) =>
       LET c == screenToCanvasAt(zoomCenter.x, zoomCenter.y, scale, translate)
       IN  /\ Add(Mul(c.x, scale'), translate'.x) = zoomCenter.x
           /\ Add(Mul(c.y, scale'), translate'.y) = zoomCenter.y]_vars

(***************************************************************************)
(* C20 - Return to idle: every release and every terminate, whatever the   *)
(* gesture was and whatever the tool mode, leaves the router idle:         *)
(* isDrawing is false, the path in progress is empty, and the panning and  *)
(* zooming flags are false.                                                *)
(***************************************************************************)
Idle ==
  /\ isDrawing = FALSE /\ currentPath = <<>>
  /\ isPanning = FALSE /\ isZooming = FALSE

C20_ReturnToIdle ==
  [][(nTouches > 0 /\ nTouches' = 0) => Idle']_vars

\* a pinch that the platform took away: the flag it had set is cleared
C20_Witness ==
  /\ nTouches = 0 /\ Len(log) >= 2
  /\ log[1].e = "grant2" /\ Last(log).e = "terminate"
  /\ Idle

(***************************************************************************)
(* C21 - Hook commit on release: when a one-touch draw gesture of the      *)
(* useCanvasGestures canvas is released while a descriptor is in progress, *)
(* a path with that descriptor is appended to the path list and the new    *)
(* list is passed to onPathsChange.                                        *)
(***************************************************************************)
C21_HookReleaseCommits ==
  [][(/\ nTouches = 1 /\ nTouches' = 0
      /\ currentTool.mode = "draw" /\ isDrawing /\ currentPath # <<>>) =>
        /\ Len(paths') = Len(paths) + 1
        /\ paths' = Append(paths, Last(paths'))
        /\ Last(paths').d = currentPath
        /\ emits' = emits + 1]_vars

(***************************************************************************)
(* C22 - Pinch scale rule: on each two-touch move of a pinch, the new      *)
(* scale is lastScale * (currentDistance / initialDistance) clamped to the *)
(* scale range, lastScale and initialDistance being the scale and the      *)
(* distance of the touches when the pinch began.                           *)
(***************************************************************************)
TouchDistance(ev) ==
  MathHypot(ev.p[1][1] - ev.p[2][1], ev.p[1][2] - ev.p[2][2])

\* lastScale * (currentDistance / initialDistance), clamped, with the values
\* of the two-touch grant that began the gesture
ClampedPinch(currentDistance) ==
  LET raw == Mul(log[1].s, Div(currentDistance, TouchDistance(log[1])))
  IN  MathMax(R(2, 10), MathMin(I(10), raw))

C22_PinchScaleRule ==
  [][PinchMoveStep =>
       \A currentDistance \in {TouchDistance(Last(log'))} :
          scale' = ClampedPinch(currentDistance)]_vars

\* the rule of the code: the new scale lies a fifth of the way from the
\* scale at the start of the pinch to the clamped value
C22_PinchScaleDamped ==
  [][PinchMoveStep =>
       \A currentDistance \in {TouchDistance(Last(log'))} :
          scale' = Add(log[1].s,
                       Mul(Sub(ClampedPinch(currentDistance), log[1].s),
                           R(2, 10)))]_vars

\* a pinch move that changed a finite scale to a finite scale
C22_Witness ==
  /\ Ended("move2") /\ isZooming /\ nTouches = 2
  /\ IsFinite(scale) /\ IsFinite(Last(log).s) /\ scale # Last(log).s

(***************************************************************************)
(* C23 - Pan: in a one-touch gesture begun in pan mode, every move leaves  *)
(* translate at the translate of the touch-down plus the offset of the     *)
(* touch from its touch-down position, whatever moves came before; the     *)
(* move changes neither scale nor the path list and does not call          *)
(* onPathsChange.                                                          *)
(***************************************************************************)
PanMoveStep ==
  /\ log # <<>> /\ log[1].e = "grant1" /\ log[1].mode = "pan"
  /\ nTouches = 1 /\ nTouches' = 1
  /\ Len(log') = Len(log) + 1

C23_Pan ==
  [][PanMoveStep =>
       \A ev \in {Last(log')} :
          /\ translate' = [x |-> Add(log[1].t.x, I(ev.p[1] - log[1].p[1])),
                           y |-> Add(log[1].t.y, I(ev.p[2] - log[1].p[2]))]
          /\ scale' = scale /\ paths' = paths
          /\ emits' = emits /\ timers' = timers]_vars

\* a second move of a pan, to another position than the first
C23_Witness ==
  /\ log # <<>> /\ log[1].e = "grant1" /\ log[1].mode = "pan"
  /\ nTouches = 1 /\ Len(log) >= 3
  /\ log[Len(log) - 1].e = "move1" /\ Last(log).e = "move1"
  /\ log[Len(log) - 1].p # Last(log).p
  /\ translate = [x |-> Add(log[1].t.x, I(Last(log).p[1] - log[1].p[1])),
                  y |-> Add(log[1].t.y, I(Last(log).p[2] - log[1].p[2]))]
  /\ translate # log[1].t

(***************************************************************************)
(* C24 - Greedy simplification: the simplified points of every stroke are  *)
(* a sub-sequence of its points in the same order, with the first and the  *)
(* last point kept whatever their distance, and an interior point kept     *)
(* exactly when it is farther than the tolerance 2 from the last point     *)
(* kept before it; at most 2 points are returned unchanged.                *)
(***************************************************************************)
\* the points of pts at the indices of S, in order
Pick(pts, S) ==
  LET F[i \in 0..Len(pts)] ==
        IF i = 0 THEN <<>>
        ELSE IF i \in S THEN Append(F[i - 1], pts[i]) ELSE F[i - 1]
  IN  F[Len(pts)]

LastKept(S, j) == CHOOSE i \in S : i < j /\ \A k \in S : k < j => k <= i

FartherThan2(a, b) ==
  (a.x - b.x) * (a.x - b.x) + (a.y - b.y) * (a.y - b.y) > 4

GreedySimplified(pts, r) ==
  IF Len(pts) <= 2
  THEN r = pts
  ELSE \E I0 \in SUBSET (2..(Len(pts) - 1)) :
          LET S == I0 \cup {1, Len(pts)}
          IN  /\ r = Pick(pts, S)
              /\ \A j \in 2..(Len(pts) - 1) :
                    j \in S <=> FartherThan2(pts[j], pts[LastKept(S, j)])

\* the strokes that have been through simplifyPoints
SimplifiedStrokes ==
  Range(strokes) \cup
  (IF currentStroke # Null /\ Len(currentStroke.points) >= 2
   THEN {currentStroke} ELSE {})

AllStrokes ==
  Range(strokes) \cup (IF currentStroke # Null THEN {currentStroke} ELSE {})

EndsAt(c, pt) == c.x = I(pt.x) /\ c.y = I(pt.y)

C25_CurveFitDegenerate ==
  /\ \A st \in AllStrokes :
        /\ (Len(st.points) >= 2 /\ Len(st.smoothedPoints) = 2) =>
              /\ Len(st.path) = 2
              /\ st.path[1].cmd = "M" /\ EndsAt(st.path[1], st.smoothedPoints[1])
              /\ st.path[2].cmd = "L" /\ EndsAt(st.path[2], st.smoothedPoints[2])
        /\ Len(st.points) <= 1 => st.path = <<>>
  /\ \A st \in Range(strokes) : Len(st.points) >= 2

(***************************************************************************)
(* C28 - Smooth path through the points: for a stroke with 3 or more       *)
(* simplified points P0..Pn, the path starts with a move-to P0, ends at    *)
(* Pn, and has one cubic segment per consecutive pair of points, the k-th  *)
(* of which ends at Pk (k = 1..n).                                         *)
(***************************************************************************)
C28_SmoothPathThroughPoints ==
  \A st \in AllStrokes :
     (Len(st.points) >= 2 /\ Len(st.smoothedPoints) >= 3) =>
        /\ st.path # <<>>
        /\ st.path[1].cmd = "M" /\ EndsAt(st.path[1], st.smoothedPoints[1])
        /\ EndsAt(Last(st.path), Last(st.smoothedPoints))
        /\ Len(st.path) = Len(st.smoothedPoints)
        /\ \A k \in 2..Len(st.smoothedPoints) :
              /\ k <= Len(st.path)
              /\ st.path[k].cmd = "C"
              /\ EndsAt(st.path[k], st.smoothedPoints[k])

(***************************************************************************)
(* C26 - Manual save is not reverted: once a manual save has been made     *)
(* with the title and the paths that the editor still shows, and all save  *)
(* timers have fired and all writes have completed, the persisted note     *)
(* has that title and those paths.                                         *)
(***************************************************************************)
ManuallySaved ==
  \E i \in DOMAIN updateCalls :
     updateCalls[i].updates = [title |-> title, paths |-> paths]

C26_ManualSaveNotReverted ==
  (ManuallySaved /\ timers = {} /\ writes = <<>> /\ nTouches = 0) =>
     \A i \in DOMAIN storage :
        storage[i].id = NoteId =>
           storage[i].title = title /\ storage[i].paths = paths

(***************************************************************************)
(* C27 - No lost updates: once the storage writes of all the calls made on *)
(* different notes have completed, the notes list and the stored list      *)
(* reflect every call: an updated note has its update, a deleted note is   *)
(* absent, an added note is present.                                       *)
(***************************************************************************)
Reflected(c, ns) ==
  IF c.op = "updateNote"
  THEN \E i \in DOMAIN ns :
          /\ ns[i].id = c.id
          /\ \A f \in DOMAIN c.updates : ns[i][f] = c.updates[f]
  ELSE IF c.op = "deleteNote"
  THEN \A i \in DOMAIN ns : ns[i].id # c.id
  ELSE \E i \in DOMAIN ns : ns[i].id = c.id

C27_NoLostUpdates ==
  writes = <<>> =>
     \A k \in DOMAIN updateCalls :
        Reflected(updateCalls[k], notes) /\ Reflected(updateCalls[k], storage)

(***************************************************************************)
(* C29 - Folder referential integrity: the folder write of deleteFolder(id)*)
(* removes the folder id and leaves every other folder as it is; when      *)
(* deleteFolder(id) completes, the folder id is absent from the folder     *)
(* list, no note has folderId = id, and every note is as it was but for a  *)
(* folderId = id, which is cleared.                                        *)
(***************************************************************************)
DeleteFolderWrite(op) ==
  /\ writes # <<>> /\ ~IsUpdateWrite(Head(writes))
  /\ Head(writes).op = op
  /\ op = "saveFolders" => Head(writes).then = "deleteFolder"

C29_FolderIntegrity ==
  [][
     /\ (DeleteFolderWrite("saveFolders") /\ folders' # folders) =>
           folders' = SelectSeq(folders, LAMBDA f : f.id # Head(writes).id)
     /\ (DeleteFolderWrite("deleteFolder") /\ writes' = Tail(writes)) =>
           /\ \A i \in DOMAIN folders' : folders'[i].id # Head(writes).id
           /\ \A i \in DOMAIN notes' : notes'[i].folderId # Head(writes).id
           /\ notes' = [i \in DOMAIN notes |->
                          IF notes[i].folderId = Head(writes).id
                          THEN [notes[i] EXCEPT !.folderId = NoFolder]
                          ELSE notes[i]]
    ]_vars

\* the number of buffered events, metrics and errors
Buffered == totalItems(events, metrics, errors)

\* C30: a trackEvent, trackPerformance or trackError call made with
\* tracking enabled and a batchSize of at least 1 leaves fewer than
\* batchSize items buffered; a step that hands a batch to sendToAnalytics
\* leaves all three buffers empty, and the batch holds every item buffered
\* before it; a call made with tracking disabled changes no buffer.
C30_AnalyticsBatching ==
  [][/\ (TrackCall /\ isEnabled /\ batchSize >= 1)
          => /\ Buffered' < batchSize
             /\ Buffered' = Buffered + 1 \/ Len(sent') = Len(sent) + 1
     /\ (Len(sent') > Len(sent))
          => /\ events' = <<>> /\ metrics' = <<>> /\ errors' = <<>>
             /\ \A b \in {sent'[Len(sent')]} :
                  totalItems(b.events, b.metrics, b.errors) >= Buffered
     /\ (TrackCall /\ ~isEnabled)
          => /\ events' = events /\ metrics' = metrics /\ errors' = errors
             /\ sent' = sent]_vars

\* a batch of two items of two kinds was flushed by a tracking call at
\* batchSize 2, one more item is buffered, and tracking is now disabled
C30_Witness ==
  /\ batchSize = 2 /\ ~isEnabled
  /\ Buffered = 1
  /\ sent # <<>>
  /\ \E i \in DOMAIN sent :
       /\ Len(sent[i].events) = 1 /\ Len(sent[i].metrics) = 1
       /\ sent[i].errors = <<>>

====
